---- MODULE Spec2Model ----
(***************************************************************************)
(* Verification model of the PetCollar firmware pipeline (zarsko3/Petg).   *)
(*                                                                         *)
(* Part Z : the bitmask zone engine, ZoneManager of                       *)
(*          firmware/ESP32-S3_PetCollar/include/micro_zone_manager.h       *)
(* Part T : the position estimator, TriangulationManager of                *)
(*          firmware/refactored/common/include/TriangulationManager.h      *)
(* Part B : the scan callback and the main tick sharing the beacon store   *)
(*          of BeaconManager_Enhanced (manager_implementations.cpp)        *)
(*                                                                         *)
(* Times are milliseconds (millis()).  Zone geometry lives on an integer   *)
(* grid; the estimator works in metres for beacon coordinates and in       *)
(* centimetres for distances and positions.                                *)
(***************************************************************************)
EXTENDS Integers, Sequences, FiniteSets, TLC

VARIABLES
    now,                 \* millis()
    lastOp,              \* the operation that ran last (observation only)
    \* ---- Part Z: ZoneManager (micro_zone_manager.h) ----
    zones,               \* Zone zones[MAX_ZONES]
    activeZoneCount,
    currentZoneStates,   \* uint8_t bitmask of occupancy
    previousZoneStates,
    recentTransitions,   \* std::vector<ZoneTransition>
    lastPositionUpdate,
    lastKnownX,
    lastKnownY,
    positionValid,
    loadResult,          \* return value of the last loadZonesFromJson
    lastValidAt,         \* time of the last valid sample (observation only)
    zoneAlerts,          \* the calls of triggerZoneAlert made so far
    \* ---- Part T: TriangulationManager (TriangulationManager.h) ----
    initialized_,
    knownBeacons_,       \* std::vector<BeaconPosition>
    activeBeacons_,      \* std::vector<Beacon>
    positionHistory_,    \* std::vector<Position2D>
    currentPosition_,
    lastValidPosition_,
    kalmanFilter_,
    positionValid_,
    currentConfidence_,
    lastTriangulation_,
    enableKalmanFilter_,
    enableOutlierDetection_,
    newPosition,         \* the local newPosition of the last updatePosition
    updateResult,        \* return value of the last updatePosition
    estimateBeacons,     \* activeBeacons_.size() when currentPosition_ was set
    \* ---- Part B: BeaconManager_Enhanced (manager_implementations.cpp) ----
    activeBeacons,       \* std::vector<BeaconData>
    rssiFilters,         \* std::map<String, RSSIFilter>
    scanResults,         \* advertisements delivered so far
    cbPc,                \* where the callback task is in updateBeacon
    filteredBeacon,      \* the local filteredBeacon of updateBeacon
    cbSlot,              \* the entry the search loop of updateBeacon found
    mainPc,              \* where the main tick is in getBeaconDataJSON
    mainIdx,             \* the range-for iterator of getBeaconDataJSON
    mainEnd,             \* its end()
    iteratorValid,       \* FALSE once push_back reallocated under it
    beaconObj,           \* the JSON object being filled
    jsonBeacons,         \* the "beacons" array of the document
    \* ---- proximity triggers of BeaconManager_Enhanced ----
    proximityConfigs,    \* std::vector<ProximityBeaconConfig>
    proximityLog,        \* what each processProximityTriggers call saw and
                         \* did (observation only)
    \* ---- the samples handed to the RSSI filters ----
    acceptedSamples,     \* address -> every sample given to addSample, in
                         \* order (observation only)
    \* ---- BeaconManager (common/include/BeaconManager.h) ----
    beacons_,            \* std::vector<BeaconInfo>
    locations_,          \* std::map<String, LocationGroup>
    lastCleanup_,
    totalDetections_,
    uniqueBeacons_,
    observed,            \* the arguments of the last updateBeacon call
                         \* (observation only)
    \* ---- Part S: SimpleRSSISmoother (RSSISmoother.h) ----
    globalRSSISmoother,
    packetOffered,       \* the arguments and the result of the last
                         \* addRSSIPacket call (observation only)
    smoothedOut,         \* what the last getSmoothedRssi call reported
                         \* (observation only)
    acceptedTimes,       \* the timestamps of the accepted packets
                         \* (observation only)
    \* ---- Part C: ZoneManager of the refactored code (ZoneManager.h) ----
    zones_,
    savedJson,           \* the document saveConfiguration returned last
    savedFrom,           \* zones_ when it was saved (observation only)
    ZoneManager_initialized_,
    currentZoneId_,
    lastZoneCheck_,
    lastTransition_,
    transitionHistory_,  \* std::vector<ZoneTransition>
    zoneEvents,          \* the callbacks made so far, each with its time
                         \* (observation only)
    \* ---- Part A: AlertManager (AlertManager.h) ----
    AlertManager_initialized_,
    currentAlert_,       \* AlertState
    lastCooldownEnd_,
    totalAlerts_,
    alertRequest,        \* the last startAlert call and what it returned
                         \* (observation only)
    \* ---- functions applied to chosen arguments ----
    probe                \* the function applied last, its arguments and
                         \* its result

zvars == <<zones, activeZoneCount, currentZoneStates, previousZoneStates,
           recentTransitions, lastPositionUpdate, lastKnownX, lastKnownY,
           positionValid, loadResult, lastValidAt, zoneAlerts>>

tvars == <<initialized_, knownBeacons_, activeBeacons_, positionHistory_,
           currentPosition_, lastValidPosition_, kalmanFilter_,
           positionValid_, currentConfidence_, lastTriangulation_,
           enableKalmanFilter_, enableOutlierDetection_, newPosition,
           updateResult, estimateBeacons>>

bvars == <<activeBeacons, rssiFilters, scanResults, cbPc, filteredBeacon,
           cbSlot, mainPc, mainIdx, mainEnd, iteratorValid, beaconObj,
           jsonBeacons>>

pvars == <<proximityConfigs, proximityLog>>

svars == <<acceptedSamples>>

rvars == <<beacons_, locations_, lastCleanup_, totalDetections_,
           uniqueBeacons_, observed>>

smvars == <<globalRSSISmoother, packetOffered, smoothedOut, acceptedTimes>>

cvars == <<zones_, savedJson, savedFrom>>

mvars == <<ZoneManager_initialized_, currentZoneId_, lastZoneCheck_,
           lastTransition_, transitionHistory_, zoneEvents>>

avars == <<AlertManager_initialized_, currentAlert_, lastCooldownEnd_,
           totalAlerts_, alertRequest>>

ovars == <<mvars, avars>>

wvars == <<cvars, probe, ovars>>

yvars == <<rvars, smvars, wvars>>

xvars == <<pvars, svars, yvars>>

vars == <<now, lastOp, zvars, tvars, bvars, xvars>>

\* ------------------------------------------------------------------------
\* Bounds of the model and program constants
\* ------------------------------------------------------------------------
MaxTrans == 2                 \* updates stop once this many records are held
MaxAlerts == 2                \* and once this many alert calls were made

MAX_ZONES == 8
MAX_POINTS_PER_ZONE == 20
TRANSITION_HISTORY_LIMIT == 50
AlertDelaySec == 3            \* ZoneConfig().alertDelay, seconds
PositionMaxAgeMs == 10000     \* PositionMeasurement::isValid(maxAgeMs)
ZoneAlertCooldownMs == 5000   \* Zone().alertCooldown, milliseconds

\* The instants at which millis() is sampled.
TimePoints == {0, 2000, 12000}

Min2(a, b) == IF a < b THEN a ELSE b
Max2(a, b) == IF a > b THEN a ELSE b

\* ------------------------------------------------------------------------
\* uint8_t bit operations
\* ------------------------------------------------------------------------
ZoneIdx == 0 .. (MAX_ZONES - 1)

Bit(m, i) == (m \div (2 ^ i)) % 2

BitsOf(m) == {i \in ZoneIdx : Bit(m, i) = 1}

RECURSIVE MaskOf(_)
MaskOf(S) == IF S = {} THEN 0
             ELSE LET i == CHOOSE j \in S : TRUE
                  IN (2 ^ i) + MaskOf(S \ {i})

\* a & ~b on uint8_t
BitAndNot(a, b) == MaskOf(BitsOf(a) \ BitsOf(b))

\* ------------------------------------------------------------------------
\* Part Z: geometry
\* ------------------------------------------------------------------------
\* a variant that also takes the upper end of the edge's y-range
rayIntersectsSegmentClosed(px, py, x1, y1, x2, y2) ==
    IF y1 = y2 THEN FALSE
    ELSE IF py < Min2(y1, y2) \/ py > Max2(y1, y2) THEN FALSE
    ELSE IF y2 > y1
         THEN (py - y1) * (x2 - x1) > (px - x1) * (y2 - y1)
         ELSE (py - y1) * (x2 - x1) < (px - x1) * (y2 - y1)

\* rayIntersectsSegment: intersectionX = x1 + (py-y1)*(x2-x1)/(y2-y1) > px,
\* decided without the division (cross-multiplied by the sign of y2-y1).
rayIntersectsSegment(px, py, x1, y1, x2, y2) ==
    IF y1 = y2 THEN FALSE
    ELSE IF py < Min2(y1, y2) \/ py >= Max2(y1, y2) THEN FALSE
    ELSE IF y2 > y1
         THEN (py - y1) * (x2 - x1) > (px - x1) * (y2 - y1)
         ELSE (py - y1) * (x2 - x1) < (px - x1) * (y2 - y1)

\* a variant that asks for any crossing instead of an odd number
isPointInPolygonAnyCrossing(x, y, zone) ==
    /\ zone.pointCount >= 3
    /\ zone.isComplete
    /\ \E i \in 1 .. zone.pointCount :
          LET j == (i % zone.pointCount) + 1
          IN rayIntersectsSegment(x, y,
                 zone.points[i][1], zone.points[i][2],
                 zone.points[j][1], zone.points[j][2])

isPointInPolygon(x, y, zone) ==
    IF zone.pointCount < 3 \/ ~zone.isComplete THEN FALSE
    ELSE LET hits == {i \in 1 .. zone.pointCount :
                        LET j == (i % zone.pointCount) + 1
                        IN rayIntersectsSegment(x, y,
                               zone.points[i][1], zone.points[i][2],
                               zone.points[j][1], zone.points[j][2])}
         IN Cardinality(hits) % 2 = 1

\* ------------------------------------------------------------------------
\* Part Z: configuration documents handed to loadZonesFromJson
\* ------------------------------------------------------------------------
ZoneObj(id, name, complete, pts) ==
    [id |-> id, name |-> name, isComplete |-> complete, points |-> pts]

ZA == ZoneObj("A", "yard",  TRUE, << <<0, 0>>, <<2, 0>>, <<2, 2>>, <<0, 2>> >>)
ZB == ZoneObj("B", "house", TRUE, << <<0, 0>>, <<4, 0>>, <<4, 2>>, <<0, 2>> >>)
ZTwoPts == ZoneObj("C", "line", TRUE, << <<0, 0>>, <<4, 4>> >>)
ZNoId == ZoneObj("", "anon", TRUE, << <<0, 0>>, <<2, 0>>, <<2, 2>> >>)

\* parsed: deserializeJson succeeded; hasZones: doc["zones"] is an array
JsonDoc(parsed, hasZones, zs) ==
    [parsed |-> parsed, hasZones |-> hasZones, zones |-> zs]

DocMalformed == JsonDoc(FALSE, FALSE, <<>>)       \* not JSON at all
DocNoZones   == JsonDoc(TRUE, FALSE, <<>>)        \* JSON without "zones"
DocAB        == JsonDoc(TRUE, TRUE, <<ZA, ZB>>)
DocB         == JsonDoc(TRUE, TRUE, <<ZB>>)
DocBadA      == JsonDoc(TRUE, TRUE, <<ZNoId, ZTwoPts, ZA>>)
DocEmpty     == JsonDoc(TRUE, TRUE, <<>>)

JsonDocs == {DocMalformed, DocNoZones, DocAB, DocB, DocBadA, DocEmpty}

\* The positions fed to updatePosition: in A and B, in B only, in neither.
Positions == {<<1, 1>>, <<3, 1>>, <<5, 1>>}

\* ------------------------------------------------------------------------
\* Part Z: state after construction and begin()
\* ------------------------------------------------------------------------
Zone0 == [zoneId |-> "", name |-> "", pointCount |-> 0, points |-> <<>>,
          isComplete |-> FALSE, isActive |-> TRUE,
          currentlyOccupied |-> FALSE, lastTriggered |-> 0]

ZInit ==
    /\ zones = [i \in ZoneIdx |-> Zone0]
    /\ activeZoneCount = 0
    /\ currentZoneStates = 0
    /\ previousZoneStates = 0
    /\ recentTransitions = <<>>
    /\ lastPositionUpdate = 0
    /\ lastKnownX = 0
    /\ lastKnownY = 0
    /\ positionValid = FALSE
    /\ loadResult = TRUE
    /\ lastValidAt = 0
    /\ zoneAlerts = <<>>

\* ------------------------------------------------------------------------
\* Part Z: processZoneTransitions
\* ------------------------------------------------------------------------
Transition(z, entered, t, x, y) ==
    [zoneId |-> z.zoneId, zoneName |-> z.name, entered |-> entered,
     timestamp |-> t, positionX |-> x, positionY |-> y]

\* the records pushed by one of the two loops, in index order
RECURSIVE TransitionsFor(_, _, _, _, _, _, _)
TransitionsFor(zs, cnt, mask, entered, t, x, y) ==
    IF cnt = 0 THEN <<>>
    ELSE LET rest == TransitionsFor(zs, cnt - 1, mask, entered, t, x, y)
         IN IF Bit(mask, cnt - 1) = 1
            THEN Append(rest, Transition(zs[cnt - 1], entered, t, x, y))
            ELSE rest

\* a variant that gives up the newest records instead of the oldest
TrimHistoryNewest(h) ==
    SubSeq(h, 1, Min2(Len(h), TRANSITION_HISTORY_LIMIT))

\* while (recentTransitions.size() > 50) erase(begin())
RECURSIVE TrimHistory(_)
TrimHistory(h) == IF Len(h) > TRANSITION_HISTORY_LIMIT
                  THEN TrimHistory(Tail(h)) ELSE h

\* zones[] after the entry loop and then the exit loop; only indexes
\* below activeZoneCount are visited
ZonesAfterTransitions(zs, cnt, enteredZones, exitedZones, t) ==
    LET afterEntries ==
            [i \in ZoneIdx |->
                IF i < cnt /\ Bit(enteredZones, i) = 1
                THEN [zs[i] EXCEPT !.currentlyOccupied = TRUE,
                                   !.lastTriggered = t]
                ELSE zs[i]]
    IN [i \in ZoneIdx |->
           IF i < cnt /\ Bit(exitedZones, i) = 1
           THEN [afterEntries[i] EXCEPT !.currentlyOccupied = FALSE]
           ELSE afterEntries[i]]

\* one call triggerZoneAlert(zone, entering) made at time t
triggerZoneAlert(z, entering, t) ==
    [zoneId |-> z.zoneId, entering |-> entering, at |-> t]

\* the calls made by one of the two loops, in index order: a zone whose
\* bit is set and whose config.isActive holds
RECURSIVE AlertsFor(_, _, _, _, _)
AlertsFor(zs, cnt, mask, entering, t) ==
    IF cnt = 0 THEN <<>>
    ELSE LET rest == AlertsFor(zs, cnt - 1, mask, entering, t)
         IN IF Bit(mask, cnt - 1) = 1 /\ zs[cnt - 1].isActive
            THEN Append(rest, triggerZoneAlert(zs[cnt - 1], entering, t))
            ELSE rest

AlertsAfterTransitions(a, zs, cnt, enteredZones, exitedZones, t) ==
    a \o AlertsFor(zs, cnt, enteredZones, TRUE, t)
      \o AlertsFor(zs, cnt, exitedZones, FALSE, t)

HistoryAfterTransitions(h, zs, cnt, enteredZones, exitedZones, t, x, y) ==
    TrimHistory(h \o TransitionsFor(zs, cnt, enteredZones, TRUE, t, x, y)
                  \o TransitionsFor(zs, cnt, exitedZones, FALSE, t, x, y))

\* ------------------------------------------------------------------------
\* Part Z: updatePosition
\* ------------------------------------------------------------------------
\* newZoneStates of updatePosition
Containment(zs, cnt, x, y) ==
    MaskOf({i \in ZoneIdx :
              i < cnt /\ zs[i].isActive /\ isPointInPolygon(x, y, zs[i])})

\* a variant that forgets the validity test of the early return
SkipsZonesIgnoringValidity(valid) == activeZoneCount = 0

\* the early return of updatePosition
SkipsZones(valid) == ~valid \/ activeZoneCount = 0

updatePosition(x, y, valid) ==
    /\ lastOp' = "updatePosition"
    /\ lastKnownX' = x
    /\ lastKnownY' = y
    /\ positionValid' = valid
    /\ lastPositionUpdate' = now
    /\ lastValidAt' = IF valid THEN now ELSE lastValidAt
    /\ IF SkipsZones(valid)
       THEN UNCHANGED <<zones, currentZoneStates, previousZoneStates,
                        recentTransitions, zoneAlerts>>
       ELSE LET newZoneStates == Containment(zones, activeZoneCount, x, y)
                enteredZones == BitAndNot(newZoneStates, currentZoneStates)
                exitedZones == BitAndNot(currentZoneStates, newZoneStates)
            IN /\ zones' = ZonesAfterTransitions(zones, activeZoneCount,
                                enteredZones, exitedZones, now)
               /\ recentTransitions' =
                     HistoryAfterTransitions(recentTransitions, zones,
                         activeZoneCount, enteredZones, exitedZones,
                         now, x, y)
               /\ zoneAlerts' =
                     AlertsAfterTransitions(zoneAlerts, zones,
                         activeZoneCount, enteredZones, exitedZones, now)
               /\ previousZoneStates' = currentZoneStates
               /\ currentZoneStates' = newZoneStates
    /\ UNCHANGED <<now, activeZoneCount, loadResult, tvars, bvars, xvars>>

\* ------------------------------------------------------------------------
\* Part Z: loadZonesFromJson
\* ------------------------------------------------------------------------
FirstPoints(pts) == SubSeq(pts, 1, Min2(Len(pts), MAX_POINTS_PER_ZONE))

\* the loop over zonesArray: st = [zones, count]
RECURSIVE LoadLoop(_, _, _)
LoadLoop(st, objs, k) ==
    IF k > Len(objs) \/ st.count >= MAX_ZONES THEN st
    ELSE LET o == objs[k]
         IN IF o.id = "" \/ o.name = "" \/ ~o.isComplete
            THEN LoadLoop(st, objs, k + 1)
            ELSE LET pts == FirstPoints(o.points)
                     z == [st.zones[st.count] EXCEPT
                              !.zoneId = o.id, !.name = o.name,
                              !.isComplete = o.isComplete,
                              !.pointCount = Len(pts), !.points = pts]
                     zs == [st.zones EXCEPT ![st.count] = z]
                 IN LoadLoop([zones |-> zs,
                              count |-> IF Len(pts) >= 3
                                        THEN st.count + 1 ELSE st.count],
                             objs, k + 1)

\* what the zone table and the count are after the call
LoadedState(doc) ==
    IF ~doc.parsed THEN [zones |-> zones, count |-> activeZoneCount]
    ELSE IF ~doc.hasZones THEN [zones |-> zones, count |-> 0]
    ELSE LoadLoop([zones |-> zones, count |-> 0], doc.zones, 1)

loadZonesFromJson(doc) ==
    /\ lastOp' = "loadZonesFromJson"
    /\ loadResult' = (doc.parsed /\ doc.hasZones)
    /\ zones' = LoadedState(doc).zones
    /\ activeZoneCount' = LoadedState(doc).count
    /\ UNCHANGED <<now, currentZoneStates, previousZoneStates,
                   recentTransitions, lastPositionUpdate, lastKnownX,
                   lastKnownY, positionValid, lastValidAt, zoneAlerts,
                   tvars, bvars, xvars>>

\* ------------------------------------------------------------------------
\* Part Z: clearAllZones
\* ------------------------------------------------------------------------
clearAllZones ==
    /\ lastOp' = "clearAllZones"
    /\ activeZoneCount' = 0
    /\ currentZoneStates' = 0
    /\ previousZoneStates' = 0
    /\ recentTransitions' = <<>>
    /\ zones' = [i \in ZoneIdx |-> Zone0]
    /\ UNCHANGED <<now, lastPositionUpdate, lastKnownX, lastKnownY,
                   positionValid, loadResult, lastValidAt, zoneAlerts,
                   tvars, bvars, xvars>>

\* ------------------------------------------------------------------------
\* Part T: fixed-point arithmetic
\*   beacon coordinates: whole metres      distances: decimetres
\*   positions: centimetres                confidence: thousandths
\*   Kalman uncertainty: thousandths
\* ------------------------------------------------------------------------
MaxHist == 2                  \* updates stop once the history is this long

MIN_BEACONS_FOR_TRIANGULATION == 3
MAX_LS_BEACONS == 6
POSITION_CONFIDENCE_THRESHOLD == 600      \* 0.6
POSITION_HISTORY_SIZE == 20
POSITION_SANITY_LIMIT == 100000           \* 1000.0 m in cm
KALMAN_PROCESS_NOISE == 100               \* 0.1
KALMAN_MEASUREMENT_NOISE == 1000          \* 1.0
KALMAN_INITIAL_UNCERTAINTY == 1000        \* px(1.0f)
RSSI_REF_POWER == -59
PATH_LOSS_TIMES_TEN == 20                 \* 10.0 * PATH_LOSS_EXPONENT
ENVIRONMENTAL_FACTOR == 12                \* 1.2 m in dm
MIN_BEACON_DISTANCE == 5                  \* 0.5 m in dm
MAX_BEACON_DISTANCE == 500                \* 50.0 m in dm
NO_SIGNAL_DISTANCE == 9990                \* 999.0 m in dm
NO_BEACON_RESIDUAL == 99900               \* 999.0 m in cm
OUTLIER_RECENT_COUNT == 5
OUTLIER_THRESHOLD == 1000                 \* 10.0 m in cm
ResidualSaturation == 30000   \* offsets beyond 300 m are measured as 300 m

Abs(a) == IF a < 0 THEN -a ELSE a

\* division rounding towards zero, for a positive divisor
TruncDiv(a, b) == IF a < 0 THEN -((-a) \div b) ELSE a \div b

Saturate(a, lim) == Max2(-lim, Min2(lim, a))

RECURSIVE SumSeq(_)
SumSeq(s) == IF s = <<>> THEN 0 ELSE Head(s) + SumSeq(Tail(s))

\* floor of the square root, by Newton's iteration from above
RECURSIVE SqrtFrom(_, _)
SqrtFrom(n, x) ==
    LET y == (x + n \div x) \div 2
    IN IF y >= x THEN x ELSE SqrtFrom(n, y)

\* a starting value not below the root, for n < 2^31
SqrtStart(n) == IF n < 10000 THEN 100
                ELSE IF n < 1000000 THEN 1000
                ELSE IF n < 100000000 THEN 10000 ELSE 46341

Sqrt(n) == IF n = 0 THEN 0 ELSE SqrtFrom(n, SqrtStart(n))

\* 1000 * 10^(r/20) for r in 0..19
Pow10Twentieths ==
    <<1000, 1122, 1259, 1413, 1585, 1778, 1995, 2239, 2512, 2818,
      3162, 3548, 3981, 4467, 5012, 5623, 6310, 7079, 7943, 8913>>

\* 1000 * pow(10, ratio / 20)
Pow10(ratio) ==
    LET q == ratio \div PATH_LOSS_TIMES_TEN
        r == ratio % PATH_LOSS_TIMES_TEN
    IN IF q >= 0 THEN Pow10Twentieths[r + 1] * (10 ^ q)
       ELSE Pow10Twentieths[r + 1] \div (10 ^ (-q))

\* ------------------------------------------------------------------------
\* Part T: Position2D, KalmanState, BeaconPosition
\* ------------------------------------------------------------------------
Position2D(x, y, conf, t) ==
    [x |-> x, y |-> y, confidence |-> conf, timestamp |-> t]

Position2D_Default == Position2D(0, 0, 0, 0)

distanceTo(p, q) ==
    Sqrt((p.x - q.x) * (p.x - q.x) + (p.y - q.y) * (p.y - q.y))

Position2D_isValidAnyConfidence(p) ==
    Abs(p.x) < POSITION_SANITY_LIMIT /\ Abs(p.y) < POSITION_SANITY_LIMIT

Position2D_isValid(p) ==
    /\ p.confidence >= POSITION_CONFIDENCE_THRESHOLD
    /\ Abs(p.x) < POSITION_SANITY_LIMIT
    /\ Abs(p.y) < POSITION_SANITY_LIMIT

KalmanState_Default ==
    [x |-> 0, y |-> 0, vx |-> 0, vy |-> 0,
     px |-> KALMAN_INITIAL_UNCERTAINTY, py |-> KALMAN_INITIAL_UNCERTAINTY,
     pvx |-> KALMAN_INITIAL_UNCERTAINTY, pvy |-> KALMAN_INITIAL_UNCERTAINTY,
     lastUpdate |-> 0]

BeaconPosition(name, location, x, y) ==
    [name |-> name, location |-> location, x |-> x, y |-> y]

DefaultBeacons ==
    << BeaconPosition("Living Room", "Living Room", 0, 0),
       BeaconPosition("Kitchen", "Kitchen", 5, 0),
       BeaconPosition("Bedroom", "Bedroom", 0, 4),
       BeaconPosition("Office", "Office", 5, 4) >>

\* ------------------------------------------------------------------------
\* Part T: private helpers of TriangulationManager
\* ------------------------------------------------------------------------
rssiToDistance(rssi) ==
    IF rssi = 0 THEN NO_SIGNAL_DISTANCE
    ELSE LET ratio == RSSI_REF_POWER - rssi
             distance == (Pow10(ratio) * ENVIRONMENTAL_FACTOR) \div 1000
         IN Max2(MIN_BEACON_DISTANCE, Min2(MAX_BEACON_DISTANCE, distance))

\* index of the first known beacon with that name or location, 0 if none
findBeaconPosition(kb, name) ==
    LET hits == {i \in 1 .. Len(kb) :
                    kb[i].name = name \/ kb[i].location = name}
    IN IF hits = {} THEN 0
       ELSE CHOOSE i \in hits : \A j \in hits : i <= j

\* the rows {2dx, 2dy | dr2 + dxy2} built by calculateLeastSquaresPosition
LeastSquaresRows(bs, kb) ==
    LET ref == kb[findBeaconPosition(kb, bs[1].name)]
        last == Min2(Len(bs), MAX_LS_BEACONS)
        idx == SelectSeq([i \in 1 .. (last - 1) |-> i + 1],
                         LAMBDA i : findBeaconPosition(kb, bs[i].name) # 0)
    IN [k \in 1 .. Len(idx) |->
          LET i == idx[k]
              beacon == kb[findBeaconPosition(kb, bs[i].name)]
              dx == beacon.x - ref.x
              dy == beacon.y - ref.y
              dr2 == bs[1].distance * bs[1].distance
                       - bs[i].distance * bs[i].distance
              dxy2 == beacon.x * beacon.x + beacon.y * beacon.y
                        - ref.x * ref.x - ref.y * ref.y
          IN [a0 |-> 2 * dx, a1 |-> 2 * dy, b |-> dr2 + 100 * dxy2]]

Determinant(rows) ==
    LET ata00 == SumSeq([k \in 1 .. Len(rows) |-> rows[k].a0 * rows[k].a0])
        ata01 == SumSeq([k \in 1 .. Len(rows) |-> rows[k].a0 * rows[k].a1])
        ata11 == SumSeq([k \in 1 .. Len(rows) |-> rows[k].a1 * rows[k].a1])
    IN ata00 * ata11 - ata01 * ata01

\* the determinant test of solveLeastSquares; rows hold whole metres, so a
\* determinant below 1e-6 in magnitude is a determinant of zero
IsSingular(rows) == Determinant(rows) = 0

solveLeastSquaresCrossAdded(rows, t) ==
    IF Len(rows) < 2 THEN Position2D_Default
    ELSE LET n == Len(rows)
             ata00 == SumSeq([k \in 1 .. n |-> rows[k].a0 * rows[k].a0])
             ata01 == SumSeq([k \in 1 .. n |-> rows[k].a0 * rows[k].a1])
             ata11 == SumSeq([k \in 1 .. n |-> rows[k].a1 * rows[k].a1])
             atb0 == SumSeq([k \in 1 .. n |-> rows[k].a0 * rows[k].b])
             atb1 == SumSeq([k \in 1 .. n |-> rows[k].a1 * rows[k].b])
             det == ata00 * ata11 - ata01 * ata01
         IN IF IsSingular(rows) THEN Position2D_Default
            ELSE Position2D(TruncDiv(ata11 * atb0 + ata01 * atb1, det),
                            TruncDiv(ata00 * atb1 + ata01 * atb0, det),
                            1000, t)

solveLeastSquares(rows, t) ==
    IF Len(rows) < 2 THEN Position2D_Default
    ELSE LET n == Len(rows)
             ata00 == SumSeq([k \in 1 .. n |-> rows[k].a0 * rows[k].a0])
             ata01 == SumSeq([k \in 1 .. n |-> rows[k].a0 * rows[k].a1])
             ata11 == SumSeq([k \in 1 .. n |-> rows[k].a1 * rows[k].a1])
             atb0 == SumSeq([k \in 1 .. n |-> rows[k].a0 * rows[k].b])
             atb1 == SumSeq([k \in 1 .. n |-> rows[k].a1 * rows[k].b])
             det == ata00 * ata11 - ata01 * ata01
         IN IF IsSingular(rows) THEN Position2D_Default
            ELSE Position2D(TruncDiv(ata11 * atb0 - ata01 * atb1, det),
                            TruncDiv(ata00 * atb1 - ata01 * atb0, det),
                            1000, t)

calculateResidualError(position, bs, kb) ==
    LET found == SelectSeq(bs,
                     LAMBDA b : findBeaconPosition(kb, b.name) # 0)
        errors == [k \in 1 .. Len(found) |->
            LET bp == kb[findBeaconPosition(kb, found[k].name)]
                ex == Saturate(position.x - 100 * bp.x, ResidualSaturation)
                ey == Saturate(position.y - 100 * bp.y, ResidualSaturation)
                expectedDistance == Sqrt(ex * ex + ey * ey)
            IN Abs(expectedDistance - 10 * found[k].distance)]
    IN IF Len(found) > 0 THEN SumSeq(errors) \div Len(found)
       ELSE NO_BEACON_RESIDUAL

TooFewBeaconsOffByOne(n) == n < MIN_BEACONS_FOR_TRIANGULATION - 1

TooFewBeacons(n) == n < MIN_BEACONS_FOR_TRIANGULATION

calculateLeastSquaresPosition(bs, kb, t) ==
    IF TooFewBeacons(Len(bs)) THEN Position2D_Default
    ELSE IF findBeaconPosition(kb, bs[1].name) = 0 THEN Position2D_Default
    ELSE LET rows == LeastSquaresRows(bs, kb)
         IN IF Len(rows) < 2 THEN Position2D_Default
            ELSE LET result == solveLeastSquares(rows, t)
                     residualError == calculateResidualError(result, bs, kb)
                 IN [result EXCEPT
                        !.confidence = 100000 \div (100 + residualError)]

\* applyKalmanFilter: the pair of the returned position and the new state
applyKalmanFilter(measurement, kf, enabled, t) ==
    IF ~enabled THEN [pos |-> measurement, kf |-> kf]
    ELSE IF kf.lastUpdate = 0
    THEN [pos |-> measurement,
          kf |-> [kf EXCEPT !.x = measurement.x, !.y = measurement.y,
                            !.vx = 0, !.vy = 0, !.lastUpdate = t]]
    ELSE LET dt == t - kf.lastUpdate                     \* milliseconds
             x1 == kf.x + TruncDiv(kf.vx * dt, 1000)
             y1 == kf.y + TruncDiv(kf.vy * dt, 1000)
             noise == (KALMAN_PROCESS_NOISE * dt) \div 1000
             px1 == kf.px + noise
             py1 == kf.py + noise
             x2 == x1 + TruncDiv(px1 * (measurement.x - x1),
                                 px1 + KALMAN_MEASUREMENT_NOISE)
             y2 == y1 + TruncDiv(py1 * (measurement.y - y1),
                                 py1 + KALMAN_MEASUREMENT_NOISE)
             px2 == (px1 * KALMAN_MEASUREMENT_NOISE)
                        \div (px1 + KALMAN_MEASUREMENT_NOISE)
             py2 == (py1 * KALMAN_MEASUREMENT_NOISE)
                        \div (py1 + KALMAN_MEASUREMENT_NOISE)
         IN [pos |-> Position2D(x2, y2, measurement.confidence, t),
             kf |-> [kf EXCEPT !.x = x2, !.y = y2, !.px = px2, !.py = py2,
                               !.pvx = @ + noise, !.pvy = @ + noise,
                               !.lastUpdate = t]]

\* the last min(5, size) entries of the history
RecentHistory(hist) ==
    SubSeq(hist, Len(hist) - Min2(OUTLIER_RECENT_COUNT, Len(hist)) + 1,
           Len(hist))

isPositionOutlierDisabled(position, hist, enabled) == FALSE

isPositionOutlier(position, hist, enabled) ==
    IF ~enabled \/ hist = <<>> THEN FALSE
    ELSE LET recent == RecentHistory(hist)
             totalDistance ==
                 SumSeq([k \in 1 .. Len(recent) |->
                            distanceTo(position, recent[k])])
         IN totalDistance > OUTLIER_THRESHOLD * Len(recent)

updatePositionHistory(hist, position) ==
    LET h == Append(hist, position)
    IN IF Len(h) > POSITION_HISTORY_SIZE THEN Tail(h) ELSE h

\* ------------------------------------------------------------------------
\* Part T: the scan frames handed to updatePosition
\* ------------------------------------------------------------------------
Beacon(name, rssi) == [name |-> name, rssi |-> rssi, distance |-> 0]

FrameCentre ==
    << Beacon("Living Room", -67), Beacon("Kitchen", -67),
       Beacon("Bedroom", -68), Beacon("Office", -68) >>
FrameCorner ==
    << Beacon("Living Room", -66), Beacon("Kitchen", -68),
       Beacon("Bedroom", -68) >>
FrameFar ==
    << Beacon("Living Room", -85), Beacon("Kitchen", -83),
       Beacon("Bedroom", -85), Beacon("Office", -83) >>
FrameInconsistent ==
    << Beacon("Living Room", -59), Beacon("Kitchen", -59),
       Beacon("Bedroom", -59) >>
FrameTwoUsable ==
    << Beacon("Living Room", -67), Beacon("Kitchen", 0),
       Beacon("Garage", -70), Beacon("Bedroom", -99) >>
FrameLineNearKitchen ==
    << Beacon("Living Room", -71), Beacon("Kitchen", -40),
       Beacon("Hall", -63) >>

Frames == {FrameCentre, FrameCorner, FrameFar, FrameInconsistent,
           FrameTwoUsable, FrameLineNearKitchen}

\* beacons an installer adds to the known set
ExtraBeacons == {BeaconPosition("Hall", "Hall", 3, 0)}

\* ------------------------------------------------------------------------
\* Part T: state after construction
\* ------------------------------------------------------------------------
TInit ==
    /\ initialized_ = FALSE
    /\ knownBeacons_ = <<>>
    /\ activeBeacons_ = <<>>
    /\ positionHistory_ = <<>>
    /\ currentPosition_ = Position2D_Default
    /\ lastValidPosition_ = Position2D_Default
    /\ kalmanFilter_ = KalmanState_Default
    /\ positionValid_ = FALSE
    /\ currentConfidence_ = 0
    /\ lastTriangulation_ = 0
    /\ enableKalmanFilter_ = TRUE
    /\ enableOutlierDetection_ = TRUE
    /\ newPosition = Position2D_Default
    /\ updateResult = FALSE
    /\ estimateBeacons = 0

\* ------------------------------------------------------------------------
\* Part T: public operations of TriangulationManager
\* ------------------------------------------------------------------------
TriangulationManager_begin ==
    /\ lastOp' = "begin"
    /\ IF initialized_
       THEN UNCHANGED <<initialized_, knownBeacons_, positionValid_,
                        currentConfidence_, currentPosition_,
                        lastValidPosition_>>
       ELSE /\ knownBeacons_' = DefaultBeacons
            /\ positionValid_' = FALSE
            /\ currentConfidence_' = 0
            /\ currentPosition_' = Position2D_Default
            /\ lastValidPosition_' = Position2D_Default
            /\ initialized_' = TRUE
    /\ UNCHANGED <<now, xvars, zvars, bvars, activeBeacons_, positionHistory_,
                   kalmanFilter_, lastTriangulation_, enableKalmanFilter_,
                   enableOutlierDetection_, newPosition, updateResult,
                   estimateBeacons>>

\* the beacons of a frame that updatePosition keeps, with their distances
UsableBeacons(frame, kb) ==
    LET kept == SelectSeq(frame,
                    LAMBDA b : b.rssi # 0 /\ findBeaconPosition(kb, b.name) # 0)
    IN [k \in 1 .. Len(kept) |->
          [kept[k] EXCEPT !.distance = rssiToDistance(kept[k].rssi)]]

TriangulationManager_updatePosition(frame) ==
    /\ Len(positionHistory_) < MaxHist
    /\ lastOp' = "TriangulationManager::updatePosition"
    /\ IF ~initialized_
       THEN /\ updateResult' = FALSE
            /\ UNCHANGED <<activeBeacons_, positionHistory_,
                           currentPosition_, lastValidPosition_,
                           kalmanFilter_, positionValid_,
                           currentConfidence_, lastTriangulation_,
                           newPosition, estimateBeacons>>
       ELSE LET active == UsableBeacons(frame, knownBeacons_)
            IN /\ activeBeacons_' = active
               /\ IF TooFewBeacons(Len(active))
                  THEN /\ positionValid_' = FALSE
                       /\ currentConfidence_' = 0
                       /\ updateResult' = FALSE
                       /\ UNCHANGED <<positionHistory_, currentPosition_,
                                      lastValidPosition_, kalmanFilter_,
                                      lastTriangulation_, newPosition,
                                      estimateBeacons>>
                  ELSE LET raw == calculateLeastSquaresPosition(
                                      active, knownBeacons_, now)
                       IN IF \/ ~Position2D_isValid(raw)
                             \/ isPositionOutlier(raw, positionHistory_,
                                                  enableOutlierDetection_)
                          THEN /\ newPosition' = raw
                               /\ updateResult' = FALSE
                               /\ UNCHANGED <<positionHistory_,
                                     currentPosition_, lastValidPosition_,
                                     kalmanFilter_, positionValid_,
                                     currentConfidence_,
                                     lastTriangulation_, estimateBeacons>>
                          ELSE LET out == applyKalmanFilter(raw,
                                              kalmanFilter_,
                                              enableKalmanFilter_, now)
                               IN /\ newPosition' = raw
                                  /\ kalmanFilter_' = out.kf
                                  /\ currentPosition_' = out.pos
                                  /\ currentConfidence_' =
                                         out.pos.confidence
                                  /\ positionValid_' = TRUE
                                  /\ lastValidPosition_' = out.pos
                                  /\ lastTriangulation_' = now
                                  /\ positionHistory_' =
                                         updatePositionHistory(
                                             positionHistory_, out.pos)
                                  /\ estimateBeacons' = Len(active)
                                  /\ updateResult' = TRUE
    /\ UNCHANGED <<now, xvars, zvars, bvars, initialized_, knownBeacons_,
                   enableKalmanFilter_, enableOutlierDetection_>>

addBeacon(b) ==
    /\ lastOp' = "addBeacon"
    /\ LET k == findBeaconPosition(knownBeacons_, b.name)
       IN knownBeacons_' =
             IF k # 0
             THEN [knownBeacons_ EXCEPT ![k] =
                     [@ EXCEPT !.location = b.location, !.x = b.x, !.y = b.y]]
             ELSE Append(knownBeacons_, b)
    /\ UNCHANGED <<now, xvars, zvars, bvars, initialized_, activeBeacons_,
                   positionHistory_, currentPosition_, lastValidPosition_,
                   kalmanFilter_, positionValid_, currentConfidence_,
                   lastTriangulation_, enableKalmanFilter_,
                   enableOutlierDetection_, newPosition, updateResult,
                   estimateBeacons>>

setOutlierDetectionEnabled(enabled) ==
    /\ lastOp' = "setOutlierDetectionEnabled"
    /\ enableOutlierDetection_' = enabled
    /\ UNCHANGED <<now, xvars, zvars, bvars, initialized_, knownBeacons_, activeBeacons_,
                   positionHistory_, currentPosition_, lastValidPosition_,
                   kalmanFilter_, positionValid_, currentConfidence_,
                   lastTriangulation_, enableKalmanFilter_, newPosition,
                   updateResult, estimateBeacons>>

TriangulationManager_reset ==
    /\ lastOp' = "reset"
    /\ positionValid_' = FALSE
    /\ currentConfidence_' = 0
    /\ currentPosition_' = Position2D_Default
    /\ kalmanFilter_' = KalmanState_Default
    /\ positionHistory_' = <<>>
    /\ activeBeacons_' = <<>>
    /\ UNCHANGED <<now, xvars, zvars, bvars, initialized_, knownBeacons_,
                   lastValidPosition_, lastTriangulation_,
                   enableKalmanFilter_, enableOutlierDetection_,
                   newPosition, updateResult, estimateBeacons>>

isPositionValid ==
    positionValid_ /\ currentConfidence_ >= POSITION_CONFIDENCE_THRESHOLD

\* ------------------------------------------------------------------------
\* Part B: the beacon store shared by the scan callback and the main tick
\* (BeaconManager_Enhanced, manager_implementations.cpp)
\* ------------------------------------------------------------------------
MaxAdverts == 3               \* advertisements delivered in one run

BLE_RSSI_FILTER_SIZE == 5
RSSI_FILTER_INITIAL == -100
ACTIVE_BEACON_LIMIT == 10
TX_POWER_DBM == -65
PATH_LOSS_EXP_TIMES_TEN == 18             \* 10.0 * PATH_LOSS_EXP
CONTACT_OFFSET_MM == 10                   \* d -= 0.01f
BLE_MAX_DISTANCE_CM == 500

Addresses == {"aa:01", "aa:02"}
RssiValues == {-47, -83}

\* 1000 * 10^(r/18) for r in 0..17
Pow10Eighteenths ==
    <<1000, 1136, 1292, 1468, 1668, 1896, 2154, 2448, 2783,
      3162, 3594, 4084, 4642, 5275, 5995, 6813, 7743, 8799>>

\* BeaconManager_Enhanced::calculateDistance, in centimetres
calculateDistance(rssi) ==
    IF rssi >= 0 THEN 0
    ELSE LET k == TX_POWER_DBM - rssi
             q == k \div PATH_LOSS_EXP_TIMES_TEN
             r == k % PATH_LOSS_EXP_TIMES_TEN
             mm == IF q >= 0 THEN Pow10Eighteenths[r + 1] * (10 ^ q)
                   ELSE Pow10Eighteenths[r + 1] \div (10 ^ (-q))
             d == Max2(0, mm - CONTACT_OFFSET_MM)
         IN Max2(0, Min2(BLE_MAX_DISTANCE_CM, d \div 10))

\* 1000 * powf(10, k / 18): the path-loss distance in millimetres
PathLossMm(k) ==
    LET q == k \div PATH_LOSS_EXP_TIMES_TEN
        r == k % PATH_LOSS_EXP_TIMES_TEN
    IN IF q >= 0 THEN Pow10Eighteenths[r + 1] * (10 ^ q)
       ELSE Pow10Eighteenths[r + 1] \div (10 ^ (-q))

CLAMP_MIN_MM == 5                         \* CLAMP_MIN_M = 0.005f

\* BeaconManager_Enhanced::calculateDistance of the refactored tree, in
\* centimetres: no offset is subtracted, a distance below 5 mm reads 0
Refactored_calculateDistance(rssi) ==
    IF rssi >= 0 THEN 0
    ELSE LET mm == PathLossMm(TX_POWER_DBM - rssi)
             d == IF mm < CLAMP_MIN_MM THEN 0 ELSE mm
         IN Max2(0, Min2(BLE_MAX_DISTANCE_CM, d \div 10))

\* a variant that reports full confidence from -40 dBm
calculateConfidenceFromForty(rssi) ==
    IF rssi >= -40 THEN 10
    ELSE IF rssi >= -60 THEN 8
    ELSE IF rssi >= -80 THEN 6
    ELSE IF rssi >= -90 THEN 3
    ELSE 1

\* BeaconManager_Enhanced::calculateConfidence, in tenths
calculateConfidence(rssi) ==
    IF rssi >= -30 THEN 10
    ELSE IF rssi >= -60 THEN 8
    ELSE IF rssi >= -80 THEN 6
    ELSE IF rssi >= -90 THEN 3
    ELSE 1

RSSIFilter_New ==
    [samples |-> [i \in 0 .. (BLE_RSSI_FILTER_SIZE - 1) |->
                     RSSI_FILTER_INITIAL],
     index |-> 0, count |-> 0]

\* a variant that stops at the last slot instead of wrapping round
NextIndexNoWrap(index) ==
    IF index + 1 < BLE_RSSI_FILTER_SIZE THEN index + 1 ELSE index

\* index = (index + 1) % BLE_RSSI_FILTER_SIZE
NextIndex(index) == (index + 1) % BLE_RSSI_FILTER_SIZE

\* RSSIFilter::addSample: the filter afterwards and the returned average
RSSIFilter_addSample(f, rssi) ==
    LET samples == [f.samples EXCEPT ![f.index] = rssi]
        count == IF f.count < BLE_RSSI_FILTER_SIZE
                 THEN f.count + 1 ELSE f.count
        sum == SumSeq([k \in 1 .. count |-> samples[k - 1]])
    IN [filter |-> [samples |-> samples,
                    index |-> NextIndex(f.index),
                    count |-> count],
        average |-> TruncDiv(sum, count)]

BeaconData(address, rssi, distance, lastSeen) ==
    [address |-> address, rssi |-> rssi, distance |-> distance,
     lastSeen |-> lastSeen]

\* what a read through an invalidated iterator may return
DanglingReads ==
    {BeaconData(a, r, d, 0) : a \in Addresses \cup {""},
                           r \in {RSSI_FILTER_INITIAL, 0},
                           d \in {0, BLE_MAX_DISTANCE_CM}}

BInit ==
    /\ activeBeacons = <<>>
    /\ rssiFilters = <<>>
    /\ scanResults = 0
    /\ cbPc = "idle"
    /\ filteredBeacon = BeaconData("", RSSI_FILTER_INITIAL, 0, 0)
    /\ cbSlot = 0
    /\ mainPc = "idle"
    /\ mainIdx = 0
    /\ mainEnd = 0
    /\ iteratorValid = TRUE
    /\ beaconObj = BeaconData("", RSSI_FILTER_INITIAL, 0, 0)
    /\ jsonBeacons = <<>>
    /\ acceptedSamples = <<>>

\* the samples given so far to the filter of each address
SamplesAfter(h, address, rssi) ==
    [a \in DOMAIN h \cup {address} |->
        IF a = address
        THEN Append(IF a \in DOMAIN h THEN h[a] ELSE <<>>, rssi)
        ELSE h[a]]

\* rssiFilters[address], default-constructed on first use
FilterOf(address) ==
    IF address \in DOMAIN rssiFilters THEN rssiFilters[address]
    ELSE RSSIFilter_New

\* onResult -> processAdvertisedDevice -> updateBeacon, up to the filter:
\* the callback task takes an advertisement and filters its RSSI
onResult(address, rssi) ==
    /\ cbPc = "idle"
    /\ scanResults < MaxAdverts
    /\ scanResults' = scanResults + 1
    /\ lastOp' = "onResult"
    /\ LET out == RSSIFilter_addSample(FilterOf(address), rssi)
       IN /\ rssiFilters' =
                [a \in DOMAIN rssiFilters \cup {address} |->
                    IF a = address THEN out.filter ELSE rssiFilters[a]]
          /\ filteredBeacon' = BeaconData(address, out.average,
                                          calculateDistance(out.average),
                                          now)
    /\ acceptedSamples' = SamplesAfter(acceptedSamples, address, rssi)
    /\ cbPc' = "search"
    /\ UNCHANGED <<now, pvars, yvars, zvars, tvars, activeBeacons, cbSlot, mainPc,
                   mainIdx, mainEnd, iteratorValid, beaconObj, jsonBeacons>>

\* updateBeacon: the loop looking for an entry with the same address
updateBeacon_search ==
    /\ cbPc = "search"
    /\ lastOp' = "updateBeacon"
    /\ LET hits == {i \in 1 .. Len(activeBeacons) :
                       activeBeacons[i].address = filteredBeacon.address}
       IN IF hits # {}
          THEN /\ cbSlot' = CHOOSE i \in hits : \A j \in hits : i <= j
               /\ cbPc' = "assign"
          ELSE /\ cbSlot' = 0
               /\ cbPc' = IF Len(activeBeacons) < ACTIVE_BEACON_LIMIT
                          THEN "push" ELSE "idle"
    /\ UNCHANGED <<now, xvars, zvars, tvars, activeBeacons, rssiFilters,
                   scanResults, filteredBeacon, mainPc, mainIdx, mainEnd,
                   iteratorValid, beaconObj, jsonBeacons>>

\* existing = filteredBeacon, first members: address, name, rssi
updateBeacon_assignFirst ==
    /\ cbPc = "assign"
    /\ lastOp' = "updateBeacon"
    /\ activeBeacons' = [activeBeacons EXCEPT ![cbSlot] =
                            [@ EXCEPT !.address = filteredBeacon.address,
                                      !.rssi = filteredBeacon.rssi]]
    /\ cbPc' = "assignRest"
    /\ UNCHANGED <<now, xvars, zvars, tvars, rssiFilters, scanResults,
                   filteredBeacon, cbSlot, mainPc, mainIdx, mainEnd,
                   iteratorValid, beaconObj, jsonBeacons>>

\* existing = filteredBeacon, remaining members: distance, confidence, ...
updateBeacon_assignRest ==
    /\ cbPc = "assignRest"
    /\ lastOp' = "updateBeacon"
    /\ activeBeacons' = [activeBeacons EXCEPT ![cbSlot] =
                            [@ EXCEPT !.distance = filteredBeacon.distance,
                                      !.lastSeen = filteredBeacon.lastSeen]]
    /\ cbPc' = "idle"
    /\ UNCHANGED <<now, xvars, zvars, tvars, rssiFilters, scanResults,
                   filteredBeacon, cbSlot, mainPc, mainIdx, mainEnd,
                   iteratorValid, beaconObj, jsonBeacons>>

\* activeBeacons.push_back(filteredBeacon); when the vector reallocates,
\* an iteration in progress is left with invalidated iterators
updateBeacon_push ==
    /\ cbPc = "push"
    /\ lastOp' = "updateBeacon"
    /\ activeBeacons' = Append(activeBeacons, filteredBeacon)
    /\ \E reallocates \in BOOLEAN :
          iteratorValid' = IF mainPc # "idle" /\ reallocates
                           THEN FALSE ELSE iteratorValid
    /\ cbPc' = "idle"
    /\ UNCHANGED <<now, xvars, zvars, tvars, rssiFilters, scanResults,
                   filteredBeacon, cbSlot, mainPc, mainIdx, mainEnd,
                   beaconObj, jsonBeacons>>

\* getBeaconDataJSON on the main tick: begin()/end() of the range-for
getBeaconDataJSON_begin ==
    /\ mainPc = "idle"
    /\ lastOp' = "getBeaconDataJSON"
    /\ jsonBeacons' = <<>>
    /\ iteratorValid' = TRUE
    /\ mainEnd' = Len(activeBeacons)
    /\ mainIdx' = 1
    /\ mainPc' = IF Len(activeBeacons) = 0 THEN "idle" ELSE "readFirst"
    /\ UNCHANGED <<now, xvars, zvars, tvars, activeBeacons, rssiFilters,
                   scanResults, cbPc, filteredBeacon, cbSlot, beaconObj>>

\* the entry the iterator of the main tick refers to
IteratedEntries ==
    IF iteratorValid THEN {activeBeacons[mainIdx]} ELSE DanglingReads

\* beaconObj["address"], ["name"], ["rssi"]
getBeaconDataJSON_readFirst ==
    /\ mainPc = "readFirst"
    /\ lastOp' = "getBeaconDataJSON"
    /\ \E e \in IteratedEntries :
          beaconObj' = BeaconData(e.address, e.rssi, 0, 0)
    /\ mainPc' = "readRest"
    /\ UNCHANGED <<now, xvars, zvars, tvars, activeBeacons, rssiFilters,
                   scanResults, cbPc, filteredBeacon, cbSlot, mainIdx,
                   mainEnd, iteratorValid, jsonBeacons>>

\* beaconObj["distance"], ["confidence"], ... and the loop increment
getBeaconDataJSON_readRest ==
    /\ mainPc = "readRest"
    /\ lastOp' = "getBeaconDataJSON"
    /\ \E e \in IteratedEntries :
          jsonBeacons' = Append(jsonBeacons,
                                [beaconObj EXCEPT !.distance = e.distance])
    /\ mainIdx' = mainIdx + 1
    /\ mainPc' = IF mainIdx + 1 > mainEnd THEN "idle" ELSE "readFirst"
    /\ UNCHANGED <<now, xvars, zvars, tvars, activeBeacons, rssiFilters,
                   scanResults, cbPc, filteredBeacon, cbSlot, mainEnd,
                   iteratorValid, beaconObj>>

\* ------------------------------------------------------------------------
\* Part B: one advertisement handled from start to end
\* ------------------------------------------------------------------------
\* the update-or-add of updateBeacon
StoreAfterUpdate(store, fb) ==
    LET hits == {i \in 1 .. Len(store) : store[i].address = fb.address}
    IN IF hits # {}
       THEN [store EXCEPT ![CHOOSE i \in hits : \A j \in hits : i <= j] = fb]
       ELSE IF Len(store) < ACTIVE_BEACON_LIMIT THEN Append(store, fb)
       ELSE store

\* a variant that stores the raw sample
filteredRSSIRaw(average, raw) == raw

\* int filteredRSSI = filter.addSample(beacon.rssi), the value stored
filteredRSSI(average, raw) == average

\* processAdvertisedDevice -> updateBeacon running to completion while the
\* main tick is not inside the store
processAdvertisedDevice(address, rssi) ==
    /\ cbPc = "idle"
    /\ mainPc = "idle"
    /\ scanResults' = scanResults + 1
    /\ lastOp' = "processAdvertisedDevice"
    /\ LET out == RSSIFilter_addSample(FilterOf(address), rssi)
           fb == BeaconData(address, filteredRSSI(out.average, rssi),
                    calculateDistance(filteredRSSI(out.average, rssi)),
                    now)
       IN /\ rssiFilters' =
                [a \in DOMAIN rssiFilters \cup {address} |->
                    IF a = address THEN out.filter ELSE rssiFilters[a]]
          /\ filteredBeacon' = fb
          /\ activeBeacons' = StoreAfterUpdate(activeBeacons, fb)
    /\ acceptedSamples' = SamplesAfter(acceptedSamples, address, rssi)
    /\ UNCHANGED <<now, pvars, yvars, zvars, tvars, cbPc, cbSlot, mainPc, mainIdx,
                   mainEnd, iteratorValid, beaconObj, jsonBeacons>>

\* the timeout handed to cleanupOldBeacons
CLEANUP_TIMEOUT_MS == 10000

\* BeaconManager_Enhanced::cleanupOldBeacons: the erase is commented out,
\* the call prints a line
cleanupOldBeacons(timeoutMs) ==
    /\ lastOp' = "cleanupOldBeacons"
    /\ UNCHANGED <<now, xvars, zvars, tvars, bvars>>

\* ------------------------------------------------------------------------
\* Part B: proximity triggers
\* ------------------------------------------------------------------------
MaxChecks == 4                \* calls of processProximityTriggers observed

TRIGGER_DISTANCE_CM == 50     \* triggerDistance handed to configure
PROXIMITY_DELAY_MS == 2000    \* proximityDelayTime handed to configure
COOLDOWN_PERIOD_MS == 1000    \* cooldownPeriod handed to configure
ALERT_DURATION_MS == 1000     \* alertDuration handed to configure
ADVERTISED_NAME == "Unknown"  \* beacon.name of an advertisement without name

\* a ProximityBeaconConfig as push_back(ProximityBeaconConfig()) leaves it
ProximityBeaconConfig_New ==
    [beaconId |-> "", beaconName |-> "", macAddress |-> "",
     alertMode |-> "", triggerDistance |-> 0, alertDuration |-> 0,
     enableProximityDelay |-> FALSE, proximityDelayTime |-> 0,
     cooldownPeriod |-> 0, inProximityRange |-> FALSE,
     proximityStartTime |-> 0, alertActive |-> FALSE, lastTriggered |-> 0]

PInit ==
    /\ proximityConfigs = <<>>
    /\ proximityLog = <<>>

\* name.indexOf(part) >= 0, for the names and parts used here
Contains(name, part) == name = part

configureProximityBeacon(beaconId, beaconName, macAddress, alertMode, triggerDistance, alertDuration, enableProximityDelay, proximityDelayTime, cooldownPeriod) ==
    LET hits == {i \in 1 .. Len(proximityConfigs) :
                    \/ proximityConfigs[i].beaconId = beaconId
                    \/ /\ macAddress # ""
                       /\ proximityConfigs[i].macAddress = macAddress}
        cfgs == IF hits # {} THEN proximityConfigs
                ELSE Append(proximityConfigs, ProximityBeaconConfig_New)
        k == IF hits # {} THEN CHOOSE i \in hits : \A j \in hits : i <= j
             ELSE Len(cfgs)
    IN /\ lastOp' = "configureProximityBeacon"
       /\ proximityConfigs' =
             [cfgs EXCEPT ![k] =
                 [@ EXCEPT !.beaconId = beaconId,
                           !.beaconName = beaconName,
                           !.macAddress = macAddress,
                           !.alertMode = alertMode,
                           !.triggerDistance = triggerDistance,
                           !.alertDuration = alertDuration,
                           !.enableProximityDelay = enableProximityDelay,
                           !.proximityDelayTime = proximityDelayTime,
                           !.cooldownPeriod = cooldownPeriod]]
       /\ UNCHANGED <<now, proximityLog, svars, yvars, zvars, tvars, bvars>>

\* the three ways a stored beacon matches a configuration
Matches(c, b) ==
    \/ c.beaconId # "" /\ Contains(ADVERTISED_NAME, c.beaconId)
    \/ c.macAddress # "" /\ b.address = c.macAddress
    \/ c.beaconName # "" /\ Contains(ADVERTISED_NAME, c.beaconName)

\* beaconInRange: the first matching entry of the store decides (every
\* stored entry has isActive set by processAdvertisedDevice)
BeaconInRange(c, store) ==
    LET hits == {i \in 1 .. Len(store) : Matches(c, store[i])}
    IN /\ hits # {}
       /\ store[CHOOSE i \in hits : \A j \in hits : i <= j].distance
             <= c.triggerDistance

\* a variant that does not wait for the proximity delay
SustainedLongEnoughAtOnce(c, t) == TRUE

\* currentTime - config.proximityStartTime >= config.proximityDelayTime
SustainedLongEnough(c, t) ==
    t - c.proximityStartTime >= c.proximityDelayTime

\* a variant without a cooldown between triggers
CooldownElapsedAlways(c, t) == TRUE

\* currentTime - config.lastTriggered >= config.cooldownPeriod
CooldownElapsed(c, t) == t - c.lastTriggered >= c.cooldownPeriod

\* the body of the loop of processProximityTriggers for one configuration:
\* the configuration afterwards and whether startAlert was called
ProximityStep(c, store, t) ==
    LET beaconInRange == BeaconInRange(c, store)
        c1 == IF beaconInRange /\ ~c.inProximityRange
              THEN [c EXCEPT !.inProximityRange = TRUE,
                             !.proximityStartTime = t]
              ELSE IF ~beaconInRange /\ c.inProximityRange
              THEN [c EXCEPT !.inProximityRange = FALSE,
                             !.proximityStartTime = 0]
              ELSE c
        shouldTrigger ==
            /\ c1.inProximityRange
            /\ ~c1.alertActive
            /\ CooldownElapsed(c1, t)
            /\ IF c1.enableProximityDelay
               THEN SustainedLongEnough(c1, t) ELSE TRUE
        c2 == IF shouldTrigger
              THEN [c1 EXCEPT !.alertActive = TRUE, !.lastTriggered = t]
              ELSE c1
        skipped == shouldTrigger /\ c1.alertMode = "none"
        c3 == IF ~skipped /\ c2.alertActive
                          /\ t - c2.lastTriggered >= c2.alertDuration
              THEN [c2 EXCEPT !.alertActive = FALSE] ELSE c2
    IN [config |-> c3,
        seen |-> [beaconId |-> c.beaconId, at |-> t,
                  inRange |-> beaconInRange,
                  alert |-> shouldTrigger /\ ~skipped,
                  delayEnabled |-> c1.enableProximityDelay,
                  delay |-> c1.proximityDelayTime]]

processProximityTriggers ==
    /\ proximityConfigs # <<>>
    /\ Len(proximityLog) < MaxChecks
    /\ lastOp' = "processProximityTriggers"
    /\ proximityConfigs' =
          [i \in 1 .. Len(proximityConfigs) |->
              ProximityStep(proximityConfigs[i], activeBeacons, now).config]
    /\ proximityLog' = proximityLog \o
          [i \in 1 .. Len(proximityConfigs) |->
              ProximityStep(proximityConfigs[i], activeBeacons, now).seen]
    /\ UNCHANGED <<now, svars, yvars, zvars, tvars, bvars>>

\* ------------------------------------------------------------------------
\* Part S: the packet-level smoother, SimpleRSSISmoother
\* ------------------------------------------------------------------------
BLE_RSSI_PACKET_COUNT == 10           \* packets collected per beacon
BLE_RSSI_QUALITY_THRESHOLD == -95     \* quality floor, dBm
BLE_RSSI_MAX_LATENCY_MS == 500

\* the number of valid packets that makes a value available
MinValidPackets == BLE_RSSI_PACKET_COUNT \div 2

\* the instants at which millis() is sampled by the smoother
SmootherTimePoints == {0, 500, 1100}

NotReady == [ready |-> FALSE, value |-> 0]

RSSIPacket(rssi, timestamp, crcValid) ==
    [rssi |-> rssi, timestamp |-> timestamp, crcValid |-> crcValid]

BeaconRSSIData_New ==
    [packets |-> <<>>, totalPackets |-> 0, discardedPackets |-> 0,
     active |-> FALSE]

\* a variant that rejects a packet at the floor itself
QualityOkAboveFloor(rssi, crcValid) ==
    crcValid /\ rssi > BLE_RSSI_QUALITY_THRESHOLD

\* the quality filter: the CRC is valid and the signal is not below the
\* floor
QualityOk(rssi, crcValid) ==
    crcValid /\ rssi >= BLE_RSSI_QUALITY_THRESHOLD

\* addPacketToBeacon: the beacon afterwards
addPacketToBeacon(b, rssi, crcValid, t) ==
    IF ~QualityOk(rssi, crcValid)
    THEN [b EXCEPT !.totalPackets = @ + 1, !.discardedPackets = @ + 1,
                   !.active = TRUE]
    ELSE LET kept == IF Len(b.packets) >= BLE_RSSI_PACKET_COUNT
                     THEN Tail(b.packets) ELSE b.packets
         IN [b EXCEPT !.packets = Append(kept, RSSIPacket(rssi, t, crcValid)),
                      !.totalPackets = @ + 1, !.active = TRUE]

\* a variant that never looks at the age of the packets
WithinLatencyAlways(b, t) == TRUE

\* the oldest retained packet is at most the maximum latency old
WithinLatency(b, t) ==
    t - b.packets[1].timestamp <= BLE_RSSI_MAX_LATENCY_MS

\* hasSmoothedData
hasSmoothedData(b, t) ==
    /\ b.packets # <<>>
    /\ \/ Len(b.packets) >= MinValidPackets
       \/ Len(b.packets) >= BLE_RSSI_PACKET_COUNT
    /\ WithinLatency(b, t)

\* sortArray: insertion of one value into a sorted sequence
RECURSIVE InsertSorted(_, _)
InsertSorted(sorted, v) ==
    IF sorted = <<>> THEN <<v>>
    ELSE IF v <= Head(sorted) THEN <<v>> \o sorted
    ELSE <<Head(sorted)>> \o InsertSorted(Tail(sorted), v)

RECURSIVE sortArray(_)
sortArray(arr) ==
    IF arr = <<>> THEN <<>>
    ELSE InsertSorted(sortArray(Tail(arr)), Head(arr))

\* a variant that adds the two middle values of an even count
calculateMedianUnhalved(b) ==
    LET arr == sortArray([k \in 1 .. Len(b.packets) |-> b.packets[k].rssi])
        n == Len(arr)
    IN IF n % 2 = 1 THEN arr[(n + 1) \div 2]
       ELSE arr[n \div 2] + arr[n \div 2 + 1]

\* calculateMedian: the two middle values are averaged on an even count
calculateMedian(b) ==
    LET arr == sortArray([k \in 1 .. Len(b.packets) |-> b.packets[k].rssi])
        n == Len(arr)
    IN IF n % 2 = 1 THEN arr[(n + 1) \div 2]
       ELSE TruncDiv(arr[n \div 2] + arr[n \div 2 + 1], 2)

SInit ==
    /\ globalRSSISmoother =
          [beacons |-> [a \in Addresses |-> BeaconRSSIData_New],
           totalPacketsProcessed |-> 0, totalPacketsDiscarded |-> 0]
    /\ packetOffered = [rssi |-> 0, crcValid |-> FALSE, accepted |-> FALSE]
    /\ smoothedOut = NotReady
    /\ acceptedTimes = <<>>

\* SimpleRSSISmoother::addRSSIPacket
addRSSIPacket(beaconMac, rssi, crcValid) ==
    LET ok == QualityOk(rssi, crcValid)
    IN /\ lastOp' = "addRSSIPacket"
       /\ globalRSSISmoother' =
             [globalRSSISmoother EXCEPT
                 !.beacons[beaconMac] =
                     addPacketToBeacon(@, rssi, crcValid, now),
                 !.totalPacketsProcessed = @ + 1,
                 !.totalPacketsDiscarded = IF ok THEN @ ELSE @ + 1]
       /\ packetOffered' = [rssi |-> rssi, crcValid |-> crcValid,
                            accepted |-> ok]
       /\ acceptedTimes' = IF ok THEN Append(acceptedTimes, now)
                           ELSE acceptedTimes
       /\ UNCHANGED <<now, smoothedOut, pvars, svars, rvars, wvars, zvars,
                      tvars, bvars>>

\* a variant that hands the oldest packet out of the buffer on every call
getSmoothedRssiDraining(beaconMac) ==
    LET b == globalRSSISmoother.beacons[beaconMac]
    IN /\ lastOp' = "getSmoothedRssi"
       /\ smoothedOut' = IF hasSmoothedData(b, now)
                         THEN [ready |-> TRUE, value |-> calculateMedian(b)]
                         ELSE NotReady
       /\ globalRSSISmoother' =
             [globalRSSISmoother EXCEPT
                 !.beacons[beaconMac].packets =
                     IF @ = <<>> THEN @ ELSE Tail(@)]
       /\ UNCHANGED <<now, packetOffered, acceptedTimes,
                      pvars, svars, rvars, wvars, zvars, tvars, bvars>>

\* SimpleRSSISmoother::getSmoothedRssi, with hasSmoothedData
getSmoothedRssi(beaconMac) ==
    LET b == globalRSSISmoother.beacons[beaconMac]
    IN /\ lastOp' = "getSmoothedRssi"
       /\ smoothedOut' = IF hasSmoothedData(b, now)
                         THEN [ready |-> TRUE, value |-> calculateMedian(b)]
                         ELSE NotReady
       /\ UNCHANGED <<now, globalRSSISmoother, packetOffered, acceptedTimes,
                      pvars, svars, rvars, wvars, zvars, tvars, bvars>>

\* ------------------------------------------------------------------------
\* Part C: the zone configuration of the refactored ZoneManager
\*   coordinates and sizes: whole metres
\* ------------------------------------------------------------------------
ZONE_LIST_LIMIT == 10            \* MAX_ZONES of ZoneManager.h
DEFAULT_SAFE_ZONE_RADIUS == 10
DEFAULT_PRIORITY == 128
ZONE_TYPE_SAFE == 0
ZONE_TYPE_DANGER == 2
ZONE_SHAPE_CIRCLE == 0
ZONE_SHAPE_RECTANGLE == 1
ZONE_SHAPE_POLYGON == 2

Point2D(x, y) == [x |-> x, y |-> y]

\* ZoneSchedule()
ZoneSchedule_New ==
    [enabled |-> FALSE, startHour |-> 0, startMinute |-> 0, endHour |-> 23,
     endMinute |-> 59, activeDays |-> 127]

\* Zone()
Zone_New(t) ==
    [id |-> "", name |-> "", description |-> "", type |-> ZONE_TYPE_SAFE,
     shape |-> ZONE_SHAPE_CIRCLE, active |-> TRUE, alertEnabled |-> TRUE,
     schedule |-> ZoneSchedule_New, center |-> Point2D(0, 0),
     radius |-> DEFAULT_SAFE_ZONE_RADIUS, width |-> 0, height |-> 0,
     vertices |-> <<>>, alertCooldown |-> ZoneAlertCooldownMs,
     priority |-> DEFAULT_PRIORITY, createdTime |-> t, lastModified |-> t]

findZone(zs, id) == \E k \in 1 .. Len(zs) : zs[k].id = id

\* the three ways a zone is added; each refuses a full list and a known id
AddZone(z) ==
    /\ lastOp' = "addZone"
    /\ zones_' = IF Len(zones_) >= ZONE_LIST_LIMIT \/ findZone(zones_, z.id)
                 THEN zones_ ELSE Append(zones_, z)
    /\ UNCHANGED <<now, savedJson, savedFrom, probe, ovars, pvars, svars,
                   rvars, smvars, zvars, tvars, bvars>>

\* ZoneManager::addCircularZone
addCircularZone(id, name, type, centerX, centerY, radius) ==
    AddZone([Zone_New(now) EXCEPT !.id = id, !.name = name, !.type = type,
                !.center = Point2D(centerX, centerY), !.radius = radius])

\* ZoneManager::addRectangularZone
addRectangularZone(id, name, type, centerX, centerY, width, height) ==
    AddZone([Zone_New(now) EXCEPT !.id = id, !.name = name, !.type = type,
                !.shape = ZONE_SHAPE_RECTANGLE,
                !.center = Point2D(centerX, centerY),
                !.width = width, !.height = height])

\* ZoneManager::addPolygonZone: the centre is the centroid of the vertices
addPolygonZone(id, name, type, vertices) ==
    /\ Len(vertices) >= 3
    /\ AddZone([Zone_New(now) EXCEPT !.id = id, !.name = name,
                   !.type = type, !.shape = ZONE_SHAPE_POLYGON,
                   !.vertices = vertices,
                   !.center = Point2D(
                       TruncDiv(SumSeq([k \in 1 .. Len(vertices) |->
                                           vertices[k].x]), Len(vertices)),
                       TruncDiv(SumSeq([k \in 1 .. Len(vertices) |->
                                           vertices[k].y]), Len(vertices)))])

\* Zone::pointInPolygon: the flag after the edges from position i on, j
\* being the vertex before i; the comparison with the intersection is
\* decided without the division
RECURSIVE PolygonLoop(_, _, _, _, _)
PolygonLoop(point, polygon, i, j, inside) ==
    IF i > Len(polygon) THEN inside
    ELSE LET pi == polygon[i]
             pj == polygon[j]
             dy == pj.y - pi.y
             straddles == (pi.y > point.y) # (pj.y > point.y)
             left == IF dy > 0
                     THEN (point.x - pi.x) * dy
                             < (pj.x - pi.x) * (point.y - pi.y)
                     ELSE (point.x - pi.x) * dy
                             > (pj.x - pi.x) * (point.y - pi.y)
         IN PolygonLoop(point, polygon, i + 1, i,
                        IF straddles /\ left THEN ~inside ELSE inside)

\* Zone::pointInPolygon
pointInPolygon(point, polygon) ==
    IF Len(polygon) < 3 THEN FALSE
    ELSE PolygonLoop(point, polygon, 1, Len(polygon), FALSE)

\* A JSON document: the kind of its root, the array under the key "zones"
\* of an object root, and the elements of an array root.
JsonDocument_New == [root |-> "null", zones |-> <<>>, elements |-> <<>>]

\* doc.createNestedArray("zones")
createNestedArray_zones(doc) == [doc EXCEPT !.root = "object"]

\* doc.createNestedObject(), then the assignments to the object: an
\* element is added to a null or array root; on an object root the call
\* returns an unbound object and the assignments are lost
createNestedObject(doc, obj) ==
    IF doc.root = "object" THEN doc
    ELSE [doc EXCEPT !.root = "array", !.elements = Append(@, obj)]

\* Zone::toJson: the members written to the object
Zone_members(z) ==
    [id |-> z.id, name |-> z.name, description |-> z.description,
     type |-> z.type, shape |-> z.shape, active |-> z.active,
     alert_enabled |-> z.alertEnabled, priority |-> z.priority,
     alert_cooldown |-> z.alertCooldown, created_time |-> z.createdTime,
     last_modified |-> z.lastModified, center |-> z.center,
     radius |-> IF z.shape = ZONE_SHAPE_CIRCLE THEN z.radius ELSE 0,
     width |-> IF z.shape = ZONE_SHAPE_RECTANGLE THEN z.width ELSE 0,
     height |-> IF z.shape = ZONE_SHAPE_RECTANGLE THEN z.height ELSE 0,
     vertices |-> IF z.shape = ZONE_SHAPE_POLYGON THEN z.vertices ELSE <<>>,
     schedule |-> z.schedule]

\* Zone::toJson
Zone_toJson(z, doc) == createNestedObject(doc, Zone_members(z))

\* the loop of saveConfiguration over zones_ from position k
RECURSIVE SaveLoop(_, _, _)
SaveLoop(doc, zs, k) ==
    IF k > Len(zs) THEN doc
    ELSE SaveLoop(Zone_toJson(zs[k], doc), zs, k + 1)

\* ZoneManager::saveConfiguration
saveConfiguration ==
    /\ lastOp' = "saveConfiguration"
    /\ savedJson' = SaveLoop(createNestedArray_zones(JsonDocument_New),
                             zones_, 1)
    /\ savedFrom' = zones_
    /\ UNCHANGED <<now, zones_, probe, ovars, pvars, svars, rvars, smvars,
                   zvars, tvars, bvars>>

\* the body of the loop of loadConfiguration: one zone from one object
ZoneFromJson(o, t) ==
    [Zone_New(t) EXCEPT
        !.id = o.id, !.name = o.name, !.description = o.description,
        !.type = o.type, !.shape = o.shape, !.active = o.active,
        !.alertEnabled = o.alert_enabled, !.priority = o.priority,
        !.alertCooldown = o.alert_cooldown, !.center = o.center,
        !.radius = IF o.shape = ZONE_SHAPE_CIRCLE THEN o.radius ELSE @,
        !.width = IF o.shape = ZONE_SHAPE_RECTANGLE THEN o.width ELSE @,
        !.height = IF o.shape = ZONE_SHAPE_RECTANGLE THEN o.height ELSE @,
        !.vertices = IF o.shape = ZONE_SHAPE_POLYGON THEN o.vertices ELSE @,
        !.schedule = o.schedule]

\* ZoneManager::loadConfiguration: doc["zones"] of a root that is no object
\* is null and the loop runs over nothing
loadConfiguration(doc) ==
    LET zonesArray == IF doc.root = "object" THEN doc.zones ELSE <<>>
    IN /\ lastOp' = "loadConfiguration"
       /\ zones_' = [k \in 1 .. Len(zonesArray) |->
                        ZoneFromJson(zonesArray[k], now)]
       /\ UNCHANGED <<now, savedJson, savedFrom, probe, ovars, pvars, svars,
                      rvars, smvars, zvars, tvars, bvars>>

CInit ==
    /\ zones_ = <<>>
    /\ savedJson = JsonDocument_New
    /\ savedFrom = <<>>

\* ------------------------------------------------------------------------
\* Part M: the monitoring of the refactored ZoneManager
\*   positions: centimetres, as Position2D; zone geometry: whole metres
\* ------------------------------------------------------------------------
ZONE_CHECK_INTERVAL == 1000
ZONE_TRANSITION_COOLDOWN == 5000
ZONE_HISTORY_SIZE == 50
HIGHEST_PRIORITY == 255          \* defaultSafeZone.priority

\* ZoneSchedule::isActive; the day is always Monday
ZoneSchedule_isActive(sch, t) ==
    LET currentSeconds == (t \div 1000) % 86400
        currentTime == (currentSeconds \div 3600) * 60
                         + (currentSeconds % 3600) \div 60
        startTime == sch.startHour * 60 + sch.startMinute
        endTime == sch.endHour * 60 + sch.endMinute
    IN IF ~sch.enabled THEN TRUE
       ELSE IF sch.activeDays % 2 = 0 THEN FALSE
       ELSE IF startTime <= endTime
       THEN currentTime >= startTime /\ currentTime <= endTime
       ELSE currentTime >= startTime \/ currentTime <= endTime

\* Zone::containsPoint
containsPoint(zone, point, t) ==
    IF ~zone.active \/ ~ZoneSchedule_isActive(zone.schedule, t) THEN FALSE
    ELSE IF zone.shape = ZONE_SHAPE_CIRCLE
    THEN (point.x - 100 * zone.center.x) * (point.x - 100 * zone.center.x)
           + (point.y - 100 * zone.center.y) * (point.y - 100 * zone.center.y)
         <= 10000 * zone.radius * zone.radius
    ELSE IF zone.shape = ZONE_SHAPE_RECTANGLE
    THEN /\ 2 * Abs(point.x - 100 * zone.center.x) <= 100 * zone.width
         /\ 2 * Abs(point.y - 100 * zone.center.y) <= 100 * zone.height
    ELSE IF zone.shape = ZONE_SHAPE_POLYGON
    THEN pointInPolygon(point,
             [k \in 1 .. Len(zone.vertices) |->
                 Point2D(100 * zone.vertices[k].x, 100 * zone.vertices[k].y)])
    ELSE FALSE

\* findZoneContaining: the ids it may return. The candidates are sorted by
\* priority with std::sort, which leaves the order of equal priorities
\* open; "" stands for nullptr.
findZoneContaining(zs, point, t) ==
    LET candidateZones == {k \in 1 .. Len(zs) : containsPoint(zs[k], point, t)}
    IN IF candidateZones = {} THEN {""}
       ELSE {zs[k].id : k \in {c \in candidateZones :
                \A d \in candidateZones : zs[c].priority >= zs[d].priority}}

\* a variant that keeps the oldest records of a full history
recordTransitionKeepOldest(history, fromZoneId, toZoneId, position, t) ==
    LET h == Append(history, [fromZoneId |-> fromZoneId, toZoneId |-> toZoneId,
                              position |-> position, timestamp |-> t,
                              confidence |-> position.confidence])
    IN IF Len(h) > ZONE_HISTORY_SIZE THEN SubSeq(h, 1, ZONE_HISTORY_SIZE) ELSE h

\* recordTransition: the history afterwards
recordTransition(history, fromZoneId, toZoneId, position, t) ==
    LET h == Append(history, [fromZoneId |-> fromZoneId, toZoneId |-> toZoneId,
                              position |-> position, timestamp |-> t,
                              confidence |-> position.confidence])
    IN IF Len(h) > ZONE_HISTORY_SIZE THEN Tail(h) ELSE h

MInit ==
    /\ ZoneManager_initialized_ = FALSE
    /\ currentZoneId_ = ""
    /\ lastZoneCheck_ = 0
    /\ lastTransition_ = 0
    /\ transitionHistory_ = <<>>
    /\ zoneEvents = [count |-> 0, at |-> 0, exited |-> "", entered |-> ""]

\* ZoneManager::begin: the default safe zone is pushed without any test
ZoneManager_begin ==
    /\ lastOp' = "ZoneManager::begin"
    /\ ZoneManager_initialized_' = TRUE
    /\ zones_' = IF ZoneManager_initialized_ THEN zones_
                 ELSE Append(zones_,
                        [Zone_New(now) EXCEPT
                            !.id = "default_safe", !.name = "Home Safe Zone",
                            !.description =
                                "Default safe zone around home base",
                            !.priority = HIGHEST_PRIORITY])
    /\ UNCHANGED <<now, savedJson, savedFrom, probe, currentZoneId_,
                   lastZoneCheck_, lastTransition_, transitionHistory_,
                   zoneEvents, avars, pvars, svars, rvars, smvars, zvars,
                   tvars, bvars>>

\* a variant that measures the cooldown from the last check
TransitionAllowedSinceLastCheck(t) ==
    t - lastZoneCheck_ >= ZONE_TRANSITION_COOLDOWN

\* a variant that lets a change through during the cooldown
TransitionAllowedAlways(t) == TRUE

\* the test that prevents rapid transitions
TransitionAllowed(t) == t - lastTransition_ >= ZONE_TRANSITION_COOLDOWN

\* ZoneManager::updatePosition. checkBoundaryAlerts and
\* analyzeMovementPatterns write nothing of what is modelled here.
ZoneManager_updatePosition(position) ==
    /\ lastOp' = "ZoneManager::updatePosition"
    /\ IF \/ ~ZoneManager_initialized_
          \/ ~Position2D_isValid(position)
          \/ now - lastZoneCheck_ < ZONE_CHECK_INTERVAL
       THEN UNCHANGED <<currentZoneId_, lastZoneCheck_, lastTransition_,
                        transitionHistory_, zoneEvents>>
       ELSE \E newZoneId \in findZoneContaining(zones_, position, now) :
              /\ lastZoneCheck_' = now
              /\ IF newZoneId # currentZoneId_ /\ TransitionAllowed(now)
                 THEN /\ transitionHistory_' =
                            recordTransition(transitionHistory_,
                                currentZoneId_, newZoneId, position, now)
                      /\ zoneEvents' =
                            [count |-> zoneEvents.count + 1, at |-> now,
                             exited |-> IF findZone(zones_, currentZoneId_)
                                        THEN currentZoneId_ ELSE "",
                             entered |-> newZoneId]
                      /\ currentZoneId_' = newZoneId
                      /\ lastTransition_' = now
                 ELSE UNCHANGED <<currentZoneId_, lastTransition_,
                                  transitionHistory_, zoneEvents>>
    /\ UNCHANGED <<now, ZoneManager_initialized_, cvars, probe, avars, pvars,
                   svars, rvars, smvars, zvars, tvars, bvars>>

\* ZoneManager::clearAllZones
ZoneManager_clearAllZones ==
    /\ lastOp' = "ZoneManager::clearAllZones"
    /\ zones_' = <<>>
    /\ currentZoneId_' = ""
    /\ transitionHistory_' = <<>>
    /\ UNCHANGED <<now, savedJson, savedFrom, probe,
                   ZoneManager_initialized_, lastZoneCheck_, lastTransition_,
                   zoneEvents, avars, pvars, svars, rvars, smvars, zvars,
                   tvars, bvars>>

\* ZoneManager::reset
ZoneManager_reset ==
    /\ lastOp' = "ZoneManager::reset"
    /\ currentZoneId_' = ""
    /\ transitionHistory_' = <<>>
    /\ lastZoneCheck_' = 0
    /\ lastTransition_' = 0
    /\ UNCHANGED <<now, cvars, probe, ZoneManager_initialized_, zoneEvents,
                   avars, pvars, svars, rvars, smvars, zvars, tvars, bvars>>

\* ------------------------------------------------------------------------
\* Part A: AlertManager
\*   an AlertConfig is held by its priority, durationMs, cooldownMs and
\*   reason; the pattern and the outputs are not part of the model
\* ------------------------------------------------------------------------
PRIORITY_LOW == 0
PRIORITY_NORMAL == 1
PRIORITY_HIGH == 2
PRIORITY_CRITICAL == 3
DEFAULT_DURATION_MS == 2000      \* AlertConfig().durationMs
DEFAULT_COOLDOWN_MS == 3000      \* AlertConfig().cooldownMs

\* (unsigned long)(a - b) < c for times a, b below 2^31 and a uint16_t c:
\* when a < b the 32-bit difference wraps to 2^32 - (b - a), which is
\* above 2^31 and so above every uint16_t
LessUL(a, b, c) == IF a >= b THEN a - b < c ELSE FALSE

AlertConfig(priority, durationMs, cooldownMs, reason) ==
    [priority |-> priority, durationMs |-> durationMs,
     cooldownMs |-> cooldownMs, reason |-> reason]

AlertConfig_New ==
    AlertConfig(PRIORITY_NORMAL, DEFAULT_DURATION_MS, DEFAULT_COOLDOWN_MS, "")

AlertState_New ==
    [isActive |-> FALSE, config |-> AlertConfig_New, startTime |-> 0,
     endTime |-> 0]

AInit ==
    /\ AlertManager_initialized_ = FALSE
    /\ currentAlert_ = AlertState_New
    /\ lastCooldownEnd_ = 0
    /\ totalAlerts_ = 0
    /\ alertRequest = [config |-> AlertConfig_New, result |-> FALSE,
                       refusedBy |-> "none", calls |-> 0]

\* a variant of shouldEnd that waits for the instant after the end time
shouldEndAfter(alert, t) == alert.isActive /\ t > alert.endTime

\* AlertState::shouldEnd
shouldEnd(alert, t) == alert.isActive /\ t >= alert.endTime

\* AlertManager::isInCooldown
isInCooldown(t) == t < lastCooldownEnd_

\* a variant of the cooldown test that asks isInCooldown
CooldownRefusesWhileInCooldown(config, t) == isInCooldown(t)

\* the cooldown test of startAlert, an unsigned subtraction
CooldownRefuses(config, t) ==
    LessUL(t, lastCooldownEnd_, config.cooldownMs)

\* a variant that lets a request of equal priority interrupt
PriorityRefusesLower(config) ==
    currentAlert_.isActive /\ config.priority < currentAlert_.config.priority

\* the priority test of startAlert
PriorityRefuses(config) ==
    currentAlert_.isActive /\ config.priority <= currentAlert_.config.priority

\* AlertManager::begin
AlertManager_begin ==
    /\ lastOp' = "AlertManager::begin"
    /\ AlertManager_initialized_' = TRUE
    /\ UNCHANGED <<now, currentAlert_, lastCooldownEnd_, totalAlerts_,
                   alertRequest, cvars, probe, mvars, pvars, svars, rvars,
                   smvars, zvars, tvars, bvars>>

\* AlertManager::startAlert(config); an active alert that is interrupted is
\* stopped first, which starts its cooldown
startAlert(config) ==
    LET refusedBy == IF ~AlertManager_initialized_ THEN "uninitialized"
                     ELSE IF CooldownRefuses(config, now) THEN "cooldown"
                     ELSE IF PriorityRefuses(config) THEN "priority"
                     ELSE "none"
    IN /\ lastOp' = "startAlert"
       /\ alertRequest' = [config |-> config, result |-> refusedBy = "none",
                           refusedBy |-> refusedBy,
                           calls |-> alertRequest.calls + 1]
       /\ IF refusedBy # "none"
          THEN UNCHANGED <<currentAlert_, lastCooldownEnd_, totalAlerts_>>
          ELSE /\ currentAlert_' =
                     [isActive |-> TRUE, config |-> config,
                      startTime |-> now, endTime |-> now + config.durationMs]
               /\ lastCooldownEnd_' =
                     IF currentAlert_.isActive
                     THEN now + currentAlert_.config.cooldownMs
                     ELSE lastCooldownEnd_
               /\ totalAlerts_' = totalAlerts_ + 1
       /\ UNCHANGED <<now, AlertManager_initialized_, cvars, probe, mvars,
                      pvars, svars, rvars, smvars, zvars, tvars, bvars>>

\* AlertManager::stopAlert
stopAlert ==
    /\ lastOp' = "stopAlert"
    /\ IF ~currentAlert_.isActive
       THEN UNCHANGED <<currentAlert_, lastCooldownEnd_>>
       ELSE /\ lastCooldownEnd_' = now + currentAlert_.config.cooldownMs
            /\ currentAlert_' = [currentAlert_ EXCEPT !.isActive = FALSE]
    /\ UNCHANGED <<now, AlertManager_initialized_, totalAlerts_,
                   alertRequest, cvars, probe, mvars, pvars, svars, rvars,
                   smvars, zvars, tvars, bvars>>

\* AlertManager::update: an alert that should end is stopped
AlertManager_update ==
    /\ lastOp' = "AlertManager::update"
    /\ IF AlertManager_initialized_ /\ shouldEnd(currentAlert_, now)
       THEN /\ lastCooldownEnd_' = now + currentAlert_.config.cooldownMs
            /\ currentAlert_' = [currentAlert_ EXCEPT !.isActive = FALSE]
       ELSE UNCHANGED <<currentAlert_, lastCooldownEnd_>>
    /\ UNCHANGED <<now, AlertManager_initialized_, totalAlerts_,
                   alertRequest, cvars, probe, mvars, pvars, svars, rvars,
                   smvars, zvars, tvars, bvars>>

\* ------------------------------------------------------------------------
\* Part R: the beacon registry, BeaconManager
\* ------------------------------------------------------------------------
MAX_BEACONS == 20
BLE_DEVICE_TIMEOUT == 60000
PROXIMITY_RSSI_THRESHOLD == -65
CLEANUP_INTERVAL_MS == 30000
GROUP_REFRESH_MS == 5000
lastScan_ == 0                  \* set by the constructor, never written
MIN_VALID_RSSI == -100
UTILS_TX_POWER == -40           \* rssi + 40.0
UTILS_RSSI_CEILING == -20       \* constrain(rssi, -100, -20)
UTILS_MAX_DISTANCE_CM == 2000
UTILS_NO_SIGNAL_CM == 999
LOWEST_PRIORITY == 5
DEFAULT_AVERAGE_RSSI == -10000  \* averageRssi(-100.0), in hundredths

\* the instants at which millis() is sampled by the registry
RegistryTimePoints == {0, 30500, 60000, 91000}

\* A beacon name is held as its dash-separated segments:
\* "PetZone-Home-01" is <<"PetZone", "Home", "01">>.
\* Utils.h extractLocation; a location is held as segments as well
extractLocation(name) ==
    IF Len(name) < 2 \/ name[1] # "PetZone" THEN <<"Unknown">>
    ELSE IF Len(name) >= 4 THEN SubSeq(name, 2, 3)
    ELSE IF Len(name) = 3 THEN <<name[2]>>
    ELSE <<"-">>

\* Utils.h extractBeaconId: what follows the last dash
extractBeaconId(name) ==
    IF Len(name) >= 2 /\ name[Len(name)] # "" THEN name[Len(name)] ELSE "00"

\* Utils.h extractZone: between the second and the third dash after the
\* prefix; with a single dash after the prefix the searches wrap to the
\* dash of the prefix and the text before it is returned
extractZone(name) ==
    IF Len(name) < 2 \/ name[1] # "PetZone" THEN ""
    ELSE IF Len(name) >= 5 THEN name[4]
    ELSE IF Len(name) = 3 THEN "PetZone"
    ELSE ""

\* BeaconManager::calculatePriority
calculatePriority(location) ==
    IF location = <<"Safe">> THEN 1
    ELSE IF location = <<"Alert">> THEN 2
    ELSE IF location = <<"Home">> THEN 3
    ELSE IF location = <<"Garden">> THEN 4
    ELSE LOWEST_PRIORITY

\* Utils.h isValidRSSI
isValidRSSI(rssi) == rssi >= MIN_VALID_RSSI /\ rssi <= 0

\* Utils.h rssiToDistance, in centimetres
Utils_rssiToDistance(rssi) ==
    IF rssi = 0 THEN UTILS_NO_SIGNAL_CM
    ELSE LET r == Max2(MIN_VALID_RSSI, Min2(UTILS_RSSI_CEILING, rssi))
             cm == (Pow10(UTILS_TX_POWER - r) + 5) \div 10
         IN Min2(Max2(1, cm), UTILS_MAX_DISTANCE_CM)

\* BeaconInfo()
BeaconInfo_New ==
    [fullName |-> <<>>, location |-> <<"Unknown">>, beaconId |-> "00",
     zone |-> "", address |-> "", rssi |-> MIN_VALID_RSSI,
     distance |-> UTILS_NO_SIGNAL_CM, firstDetected |-> 0, lastSeen |-> 0,
     lastUpdate |-> 0, isActive |-> FALSE, priority |-> 99]

\* BeaconManager::parseBeaconName
parseBeaconName(b) ==
    [b EXCEPT !.location = extractLocation(b.fullName),
              !.beaconId = extractBeaconId(b.fullName),
              !.zone = extractZone(b.fullName),
              !.priority = calculatePriority(extractLocation(b.fullName))]

\* BeaconInfo::update
BeaconInfo_update(b, newRssi, t) ==
    [b EXCEPT !.rssi = newRssi, !.distance = Utils_rssiToDistance(newRssi),
              !.lastSeen = t, !.lastUpdate = t, !.isActive = TRUE]

\* a variant that measures the age from the first detection
isExpiredSinceFirstDetected(b, t) == t - b.firstDetected > BLE_DEVICE_TIMEOUT

\* BeaconInfo::isExpired
isExpired(b, t) == t - b.lastSeen > BLE_DEVICE_TIMEOUT

\* LocationGroup::updateStats over the entries the group points to
updateStats(name, members, store, t) ==
    LET live == {k \in 1 .. Len(members) :
                    /\ store[members[k]].isActive
                    /\ ~isExpired(store[members[k]], t)}
        rssis == [k \in 1 .. Len(members) |->
                     IF k \in live THEN store[members[k]].rssi ELSE 0]
        near == {store[members[k]].distance : k \in live}
    IN [name |-> name,
        beacons |-> members,
        activeCount |-> Cardinality(live),
        totalCount |-> Len(members),
        averageRssi |-> IF live # {}
                        THEN TruncDiv(100 * SumSeq(rssis), Cardinality(live))
                        ELSE DEFAULT_AVERAGE_RSSI,
        closestDistance |-> IF near # {} /\ (\E d \in near : d < UTILS_NO_SIGNAL_CM)
                            THEN CHOOSE d \in near : \A e \in near : d <= e
                            ELSE UTILS_NO_SIGNAL_CM,
        isInRange |-> \E k \in live :
                         store[members[k]].rssi > PROXIMITY_RSSI_THRESHOLD]

\* the positions in the store of the beacons of one location, in order
RECURSIVE MembersOf(_, _, _)
MembersOf(store, loc, k) ==
    IF k > Len(store) THEN <<>>
    ELSE IF store[k].location = loc
         THEN <<k>> \o MembersOf(store, loc, k + 1)
         ELSE MembersOf(store, loc, k + 1)

\* BeaconManager::updateLocationGroups: locations_ afterwards
updateLocationGroups(store, t) ==
    [loc \in {store[k].location : k \in 1 .. Len(store)} |->
        updateStats(loc, MembersOf(store, loc, 1), store, t)]

\* BeaconManager::removeExpiredBeacons: the erase loop from position k
RECURSIVE removeExpiredBeacons(_, _, _)
removeExpiredBeacons(store, k, t) ==
    IF k > Len(store) THEN store
    ELSE IF isExpired(store[k], t)
         THEN removeExpiredBeacons(
                  SubSeq(store, 1, k - 1) \o SubSeq(store, k + 1, Len(store)),
                  k, t)
         ELSE removeExpiredBeacons(store, k + 1, t)

RInit ==
    /\ beacons_ = <<>>
    /\ locations_ = <<>>
    /\ lastCleanup_ = 0
    /\ totalDetections_ = 0
    /\ uniqueBeacons_ = 0
    /\ observed = [name |-> <<>>, address |-> "", rssi |-> 0, calls |-> 0]

\* BeaconManager::updateBeacon
BeaconManager_updateBeacon(name, address, rssi) ==
    LET hits == {i \in 1 .. Len(beacons_) : beacons_[i].address = address}
    IN /\ lastOp' = "BeaconManager::updateBeacon"
       /\ observed' = [name |-> name, address |-> address, rssi |-> rssi,
                       calls |-> observed.calls + 1]
       /\ IF name = <<>> \/ address = "" \/ ~isValidRSSI(rssi)
          THEN UNCHANGED <<beacons_, totalDetections_, uniqueBeacons_>>
          ELSE IF hits # {}
          THEN LET i == CHOOSE h \in hits : \A j \in hits : h <= j
               IN /\ beacons_' = [beacons_ EXCEPT ![i] =
                        BeaconInfo_update(
                            parseBeaconName([@ EXCEPT !.fullName = name]),
                            rssi, now)]
                  /\ UNCHANGED <<totalDetections_, uniqueBeacons_>>
          ELSE IF Len(beacons_) >= MAX_BEACONS
          THEN UNCHANGED <<beacons_, totalDetections_, uniqueBeacons_>>
          ELSE /\ beacons_' = Append(beacons_,
                     BeaconInfo_update(
                         parseBeaconName([BeaconInfo_New EXCEPT
                                             !.fullName = name,
                                             !.address = address,
                                             !.firstDetected = now]),
                         rssi, now))
               /\ totalDetections_' = totalDetections_ + 1
               /\ uniqueBeacons_' = Len(beacons_) + 1
       /\ UNCHANGED <<now, locations_, lastCleanup_, pvars, svars, smvars,
                      wvars, zvars, tvars, bvars>>

\* BeaconManager::update
BeaconManager_update ==
    LET cleanup == now - lastCleanup_ > CLEANUP_INTERVAL_MS
        kept == IF cleanup THEN removeExpiredBeacons(beacons_, 1, now)
                ELSE beacons_
        removed == Len(beacons_) - Len(kept)
    IN /\ lastOp' = "BeaconManager::update"
       /\ beacons_' = kept
       /\ lastCleanup_' = IF cleanup THEN now ELSE lastCleanup_
       /\ locations_' =
             IF removed > 0 \/ now - lastScan_ > GROUP_REFRESH_MS
             THEN updateLocationGroups(kept, now) ELSE locations_
       /\ UNCHANGED <<now, totalDetections_, uniqueBeacons_, observed,
                      pvars, svars, smvars, wvars, zvars, tvars, bvars>>

\* ------------------------------------------------------------------------
\* The clock
\* ------------------------------------------------------------------------
Tick ==
    /\ \E t \in TimePoints : t > now /\ now' = t
    /\ lastOp' = "tick"
    /\ UNCHANGED <<xvars, zvars, tvars, bvars>>

\* ------------------------------------------------------------------------
\* Specification of the zone engine
\* ------------------------------------------------------------------------
Init ==
    /\ now = 0
    /\ lastOp = "init"
    /\ ZInit
    /\ TInit
    /\ BInit
    /\ PInit
    /\ RInit
    /\ SInit
    /\ CInit
    /\ MInit
    /\ AInit
    /\ probe = [op |-> "none", args |-> <<>>, result |-> 0]

\* the updates observed: they stop once this many records are held
ZObserved ==
    /\ Len(recentTransitions) < MaxTrans
    /\ Len(zoneAlerts) < MaxAlerts

ZUpdateValid ==
    /\ ZObserved
    /\ \E p \in Positions : updatePosition(p[1], p[2], TRUE)

ZUpdateInvalid ==
    /\ ZObserved
    /\ \E p \in Positions : updatePosition(p[1], p[2], FALSE)
ZLoad == \E d \in JsonDocs : loadZonesFromJson(d)

NextZone ==
    \/ Tick
    \/ ZUpdateValid
    \/ ZUpdateInvalid
    \/ ZLoad
    \/ clearAllZones

SpecZone == Init /\ [][NextZone]_vars

\* ------------------------------------------------------------------------
\* Properties of the zone engine
\* ------------------------------------------------------------------------
ValidCycle == lastOp' = "updatePosition" /\ positionValid'
InvalidCycle == lastOp' = "updatePosition" /\ ~positionValid'

\* the records the step appended to the history
Emitted == SubSeq(recentTransitions', Len(recentTransitions) + 1,
                  Len(recentTransitions'))

EmittedCount(entered) ==
    Cardinality({k \in 1 .. Len(Emitted) : Emitted[k].entered = entered})

OccupiedFlags(zs) == {i \in ZoneIdx : zs[i].currentlyOccupied}

\* C1: a zone-occupancy change is emitted only once the new containment has
\* persisted for the configured delay.  Under that rule a position that
\* crosses into a zone and leaves again within the delay emits nothing, so
\* an "entered" record of a zone is never followed, less than the delay
\* later, by a record of the same zone leaving it.
C1_DebouncedTransitions ==
    \A i, j \in 1 .. Len(recentTransitions) :
        (/\ i < j
         /\ recentTransitions[i].zoneId = recentTransitions[j].zoneId
         /\ recentTransitions[i].entered
         /\ ~recentTransitions[j].entered)
        => recentTransitions[j].timestamp - recentTransitions[i].timestamp
               >= 1000 * AlertDelaySec

\* C2: a cycle without a valid position leaves the occupancy as it was
\* before the cycle and emits no transition.
C2_NoPositionKeepsOccupancy ==
    [][InvalidCycle =>
          /\ currentZoneStates' = currentZoneStates
          /\ OccupiedFlags(zones') = OccupiedFlags(zones)
          /\ recentTransitions' = recentTransitions]_vars

\* C2 witness: an invalid sample has just been processed while zones are
\* occupied and the sample lies outside every zone.
C2_Witness ==
    /\ lastOp = "updatePosition"
    /\ ~positionValid
    /\ currentZoneStates # 0
    /\ Containment(zones, activeZoneCount, lastKnownX, lastKnownY) = 0

\* C4: in every cycle with a valid position the zones reported as entered
\* are exactly new & ~old, the zones reported as exited are exactly
\* old & ~new, and afterwards the occupancy equals the new containment.
C4_ExactTransitions ==
    [][ValidCycle =>
          LET new == Containment(zones, activeZoneCount,
                                 lastKnownX', lastKnownY')
              old == currentZoneStates
          IN /\ EmittedCount(TRUE) = Cardinality(BitsOf(BitAndNot(new, old)))
             /\ EmittedCount(FALSE) = Cardinality(BitsOf(BitAndNot(old, new)))
             /\ currentZoneStates' = new]_vars

\* C5: once the zone engine has run a cycle later than the staleness
\* timeout after the last valid position, all zone occupancy is cleared.
C5_StaleOccupancyCleared ==
    (/\ ~positionValid
     /\ lastPositionUpdate - lastValidAt > PositionMaxAgeMs)
    => (currentZoneStates = 0 /\ OccupiedFlags(zones) = {})

\* C10: a load that reports failure leaves the zone table and the number
\* of active zones exactly as they were before the load.
C10_FailedLoadKeepsConfig ==
    [][(lastOp' = "loadZonesFromJson" /\ ~loadResult') =>
          (zones' = zones /\ activeZoneCount' = activeZoneCount)]_vars

\* C11: two calls of the alert callback for the same zone are never less
\* than the zone's alert cooldown apart.
C11_AlertCooldownRespected ==
    \A i \in 1..Len(zoneAlerts) : \A j \in 1..Len(zoneAlerts) :
        (i < j /\ zoneAlerts[i].zoneId = zoneAlerts[j].zoneId)
        => zoneAlerts[j].at - zoneAlerts[i].at >= ZoneAlertCooldownMs

\* ------------------------------------------------------------------------
\* Specification of the position estimator
\* ------------------------------------------------------------------------
TUpdate == \E f \in Frames : TriangulationManager_updatePosition(f)
TAddBeacon == \E b \in ExtraBeacons : addBeacon(b)
TSetOutlier == \E e \in BOOLEAN : setOutlierDetectionEnabled(e)

NextTri ==
    \/ Tick
    \/ TriangulationManager_begin
    \/ TUpdate
    \/ TAddBeacon
    \/ TSetOutlier
    \/ TriangulationManager_reset

SpecTri == Init /\ [][NextTri]_vars

\* ------------------------------------------------------------------------
\* Properties of the position estimator
\* ------------------------------------------------------------------------
EstimatorCycle ==
    lastOp' = "TriangulationManager::updatePosition" /\ initialized_

AfterEstimatorCycle ==
    lastOp = "TriangulationManager::updatePosition" /\ initialized_

\* the mean position of the recent history
RunningAverage(hist) ==
    LET recent == RecentHistory(hist)
        n == Len(recent)
    IN Position2D(TruncDiv(SumSeq([k \in 1 .. n |-> recent[k].x]), n),
                  TruncDiv(SumSeq([k \in 1 .. n |-> recent[k].y]), n),
                  0, 0)

\* a usable estimate farther from the running average than the threshold
FarFromAverage(estimate, hist) ==
    /\ hist # <<>>
    /\ Position2D_isValid(estimate)
    /\ distanceTo(estimate, RunningAverage(hist)) > OUTLIER_THRESHOLD

Rejected ==
    /\ ~updateResult'
    /\ currentPosition_' = currentPosition_
    /\ lastValidPosition_' = lastValidPosition_
    /\ positionHistory_' = positionHistory_

\* C6: an update with fewer than the minimum number of usable beacons
\* returns failure, leaves the estimator without a valid position and
\* produces no new position.
C6_TooFewBeaconsNoEstimate ==
    [][(EstimatorCycle
          /\ Len(activeBeacons_') < MIN_BEACONS_FOR_TRIANGULATION) =>
          (Rejected /\ ~positionValid_' /\ currentConfidence_' = 0)]_vars

\* C6 witness: an update with two usable beacons has just failed after an
\* earlier update had produced a position.
C6_Witness ==
    /\ AfterEstimatorCycle
    /\ Len(activeBeacons_) = MIN_BEACONS_FOR_TRIANGULATION - 1
    /\ ~updateResult
    /\ ~positionValid_
    /\ positionHistory_ # <<>>

\* the fallback of the specification: the centroid of the beacon positions
\* weighted by inverse distance; it fails only without any beacon
WeightedCentroid(bs, kb) ==
    LET w == [k \in 1 .. Len(bs) |-> 10000 \div bs[k].distance]
        bp == [k \in 1 .. Len(bs) |-> kb[findBeaconPosition(kb, bs[k].name)]]
        total == SumSeq(w)
    IN IF total = 0 THEN [ok |-> FALSE, x |-> 0, y |-> 0]
       ELSE [ok |-> TRUE,
             x |-> SumSeq([k \in 1 .. Len(bs) |-> 100 * bp[k].x * w[k]])
                     \div total,
             y |-> SumSeq([k \in 1 .. Len(bs) |-> 100 * bp[k].y * w[k]])
                     \div total]

\* the last update met a singular normal-equation matrix
SingularCycle ==
    /\ AfterEstimatorCycle
    /\ Len(activeBeacons_) >= MIN_BEACONS_FOR_TRIANGULATION
    /\ IsSingular(LeastSquaresRows(activeBeacons_, knownBeacons_))

\* C7: when the normal-equation matrix is singular the estimate is the one
\* of the fallback method, and there is no estimate only if the fallback
\* fails too.
C7_SingularFallsBack ==
    SingularCycle =>
        LET fb == WeightedCentroid(activeBeacons_, knownBeacons_)
        IN IF fb.ok
           THEN newPosition.x = fb.x /\ newPosition.y = fb.y
           ELSE ~updateResult

C9_ValidEstimateBacked ==
    ((AfterEstimatorCycle /\ updateResult) \/ isPositionValid) =>
        /\ estimateBeacons >= MIN_BEACONS_FOR_TRIANGULATION
        /\ currentPosition_.confidence >= POSITION_CONFIDENCE_THRESHOLD

\* C9 witness: an update from exactly three beacons has just succeeded.
C9_Witness ==
    /\ AfterEstimatorCycle
    /\ updateResult
    /\ isPositionValid
    /\ estimateBeacons = MIN_BEACONS_FOR_TRIANGULATION

\* ------------------------------------------------------------------------
\* Specification of the scan callback running against the main tick
\* ------------------------------------------------------------------------
BAdvertise == \E a \in Addresses : \E r \in RssiValues : onResult(a, r)

NextScan ==
    \/ BAdvertise
    \/ updateBeacon_search
    \/ updateBeacon_assignFirst
    \/ updateBeacon_assignRest
    \/ updateBeacon_push
    \/ getBeaconDataJSON_begin
    \/ getBeaconDataJSON_readFirst
    \/ getBeaconDataJSON_readRest

SpecScan == Init /\ [][NextScan]_vars

\* ------------------------------------------------------------------------
\* Properties of the shared beacon store
\* ------------------------------------------------------------------------
CallbackInStore == cbPc \in {"search", "assign", "assignRest", "push"}
MainInStore == mainPc # "idle"

\* every entry handed out was read whole: its distance is the distance of
\* its RSSI, as in every entry the callback writes
ReadWhole(e) == e.distance = calculateDistance(e.rssi)

\* C3: the store is guarded, so the callback's write of an entry never
\* interleaves with a read of the store by the main tick, and no entry is
\* read half-written.
C3_StoreGuarded ==
    /\ ~(CallbackInStore /\ MainInStore)
    /\ \A k \in 1 .. Len(jsonBeacons) : ReadWhole(jsonBeacons[k])

\* the half-written read alone
C3_NoTornRead ==
    \A k \in 1 .. Len(jsonBeacons) :
        jsonBeacons[k].address \in Addresses => ReadWhole(jsonBeacons[k])

\* ------------------------------------------------------------------------
\* Specification of the proximity triggers
\* ------------------------------------------------------------------------
\* the advertisements of the configured beacon
PObserve ==
    /\ scanResults < MaxAdverts
    /\ \E r \in RssiValues : processAdvertisedDevice("aa:01", r)

PConfigure ==
    \E delayed \in BOOLEAN :
        configureProximityBeacon("PetZone-Home-01", "Home", "aa:01", "both",
            TRIGGER_DISTANCE_CM, ALERT_DURATION_MS, delayed,
            PROXIMITY_DELAY_MS, COOLDOWN_PERIOD_MS)

NextProx ==
    \/ Tick
    \/ PObserve
    \/ PConfigure
    \/ processProximityTriggers

SpecProx == Init /\ [][NextProx]_vars

\* the calls before call k during which the beacon was seen in range
\* without interruption up to call k
InRangeSince(k) ==
    {j \in 1 .. k : \A m \in j .. k :
        /\ proximityLog[m].inRange
        /\ proximityLog[m].beaconId = proximityLog[k].beaconId}

\* C12: with the proximity delay enabled, an alert is started only when
\* the beacon has been seen in range without interruption for at least
\* the delay; a call that saw it out of range restarts the wait.
C12_SustainedProximityBeforeAlert ==
    \A k \in 1 .. Len(proximityLog) :
        (proximityLog[k].alert /\ proximityLog[k].delayEnabled)
        => \E j \in InRangeSince(k) :
              proximityLog[k].at - proximityLog[j].at >= proximityLog[k].delay

\* a delayed alert started after the beacon had left range and come back
C12_Witness ==
    \E k \in 1 .. Len(proximityLog) : \E m \in 1 .. k : \E e \in 1 .. m :
        /\ proximityLog[k].alert /\ proximityLog[k].delayEnabled
        /\ ~proximityLog[m].inRange
        /\ e < m /\ proximityLog[e].inRange

\* ------------------------------------------------------------------------
\* Specification of the beacon store fed one advertisement at a time
\* ------------------------------------------------------------------------
MaxSamples == 6               \* advertisements handled

SObserve ==
    /\ scanResults < MaxSamples
    /\ \E a \in Addresses : \E r \in RssiValues :
          processAdvertisedDevice(a, r)

NextStore == SObserve

SpecStore == Init /\ [][NextStore]_vars

\* the samples a filter retains, oldest first, read off the history of
\* what it was given
LatestSamples(h) ==
    SubSeq(h, Len(h) - Min2(Len(h), BLE_RSSI_FILTER_SIZE) + 1, Len(h))

\* the smoothed signal: the mean of the samples retained
SmoothedSignal(h) == TruncDiv(SumSeq(LatestSamples(h)), Len(LatestSamples(h)))

C16_BufferHoldsLatestSamples ==
    \A a \in DOMAIN rssiFilters :
        LET f == rssiFilters[a]
            h == acceptedSamples[a]
        IN /\ f.count <= BLE_RSSI_FILTER_SIZE
           /\ f.count = Min2(Len(h), BLE_RSSI_FILTER_SIZE)
           /\ \A k \in (Len(h) - f.count + 1) .. Len(h) :
                 f.samples[(k - 1) % BLE_RSSI_FILTER_SIZE] = h[k]
           /\ \A i \in 1 .. Len(activeBeacons) :
                 activeBeacons[i].address = a
                 => activeBeacons[i].rssi = SmoothedSignal(h)

\* a full filter that was given one more sample, which replaced an older
\* sample of another value
C16_Witness ==
    \E a \in DOMAIN rssiFilters :
        LET h == acceptedSamples[a]
        IN /\ Len(h) > BLE_RSSI_FILTER_SIZE
           /\ h[1] # h[Len(h)]
           /\ rssiFilters[a].samples[0] = h[Len(h)]


\* ------------------------------------------------------------------------
\* Specification of the beacon registry: a crowd of beacons fills the list,
\* two more beacons are observed, time passes, update() runs
\* ------------------------------------------------------------------------
MaxObservations == 3

CrowdAddresses ==
    <<"cc:01", "cc:02", "cc:03", "cc:04", "cc:05", "cc:06", "cc:07",
      "cc:08", "cc:09", "cc:10", "cc:11", "cc:12", "cc:13", "cc:14",
      "cc:15", "cc:16", "cc:17", "cc:18", "cc:19">>
CrowdName == <<"PetZone", "Garden", "07">>
CrowdRssi == -70

RegistryNames ==
    [a \in Addresses |->
        IF a = "aa:01" THEN <<"PetZone", "Home", "01">>
        ELSE <<"PetZone", "Safe", "01">>]
RegistryRssi == {-60, -80, 10}

RTick ==
    /\ \E t \in RegistryTimePoints : t > now /\ now' = t
    /\ lastOp' = "tick"
    /\ UNCHANGED <<xvars, zvars, tvars, bvars>>

\* the crowd is observed first, one beacon after the other
RFill ==
    /\ now = 0
    /\ observed.calls < Len(CrowdAddresses)
    /\ observed.calls = Len(beacons_)
    /\ BeaconManager_updateBeacon(CrowdName,
                                  CrowdAddresses[observed.calls + 1],
                                  CrowdRssi)

\* two more beacons are observed once the crowd is in the list
RObserve ==
    /\ observed.calls >= Len(CrowdAddresses)
    /\ observed.calls < Len(CrowdAddresses) + MaxObservations
    /\ \E a \in Addresses : \E r \in RegistryRssi :
           BeaconManager_updateBeacon(RegistryNames[a], a, r)

NextReg == RTick \/ RFill \/ RObserve \/ BeaconManager_update

SpecReg == Init /\ [][NextReg]_vars

\* the step is a call of updateBeacon whose arguments pass the validation
ValidObservation ==
    /\ observed'.calls # observed.calls
    /\ observed'.name # <<>>
    /\ observed'.address # ""
    /\ observed'.rssi >= MIN_VALID_RSSI
    /\ observed'.rssi <= 0

\* the step is a call of update() that runs the periodic cleanup
ExpireStep ==
    /\ lastOp' = "BeaconManager::update"
    /\ now - lastCleanup_ > CLEANUP_INTERVAL_MS

AddressesIn(store) == {store[k].address : k \in 1 .. Len(store)}

\* C17: the list never exceeds its capacity, and a new beacon observed
\* while the list is at capacity is taken in, a beacon of the lowest
\* priority being evicted for it.
C17_LowestPriorityEvictedAtCapacity ==
    [][/\ Len(beacons_') <= MAX_BEACONS
       /\ (/\ ValidObservation
           /\ Len(beacons_) >= MAX_BEACONS
           /\ observed'.address \notin AddressesIn(beacons_))
          => /\ observed'.address \in AddressesIn(beacons_')
             /\ \E j \in 1 .. Len(beacons_) :
                   /\ \A k \in 1 .. Len(beacons_) :
                         beacons_[j].priority >= beacons_[k].priority
                   /\ beacons_[j].address \notin AddressesIn(beacons_')]_vars

\* the half of C17 that the code keeps: the list never exceeds its capacity
C17_CapacityRespected == Len(beacons_) <= MAX_BEACONS

C20_AggregatesRecomputed ==
    [][(ValidObservation \/ ExpireStep)
       => locations_' = updateLocationGroups(beacons_', now)]_vars

\* the half of C20 that the code keeps: the groups are recomputed after a
\* cleanup
C20_RecomputedAfterCleanup ==
    [][ExpireStep => locations_' = updateLocationGroups(beacons_', now)]_vars


\* ------------------------------------------------------------------------
\* Specification of the slots of the scan store: a crowd of beacons takes
\* all slots but one, two more beacons advertise, time passes, the cleanup
\* is called
\* ------------------------------------------------------------------------
MaxNewcomers == 3

CrowdSize == ACTIVE_BEACON_LIMIT - 1

SFill ==
    /\ now = 0
    /\ scanResults < CrowdSize
    /\ processAdvertisedDevice(CrowdAddresses[scanResults + 1], CrowdRssi)

SNewcomer ==
    /\ scanResults >= CrowdSize
    /\ scanResults < CrowdSize + MaxNewcomers
    /\ \E a \in Addresses : \E r \in RssiValues :
          processAdvertisedDevice(a, r)

SCleanup == cleanupOldBeacons(CLEANUP_TIMEOUT_MS)

NextSlots == Tick \/ SFill \/ SNewcomer \/ SCleanup

SpecSlots == Init /\ [][NextSlots]_vars

\* the step handles an advertisement of a beacon that has no slot
NewcomerStep ==
    /\ lastOp' = "processAdvertisedDevice"
    /\ scanResults' # scanResults
    /\ filteredBeacon'.address \notin AddressesIn(activeBeacons)

\* C18: a beacon seen while all slots are in use is dropped, no slot
\* changing; a beacon seen after the cleanup has been called on a store
\* that holds an expired beacon gets a slot.
C18_DroppedWhenFullAcceptedAfterExpiry ==
    [][NewcomerStep
       => /\ Len(activeBeacons) >= ACTIVE_BEACON_LIMIT
             => activeBeacons' = activeBeacons
          /\ (/\ lastOp = "cleanupOldBeacons"
              /\ \E k \in 1 .. Len(activeBeacons) :
                    now - activeBeacons[k].lastSeen > CLEANUP_TIMEOUT_MS)
             => filteredBeacon'.address \in AddressesIn(activeBeacons')]_vars

\* the half of C18 that the code keeps: a beacon seen while all slots are
\* in use is dropped and no slot changes
C18_DroppedWhenFull ==
    [][(NewcomerStep /\ Len(activeBeacons) >= ACTIVE_BEACON_LIMIT)
       => activeBeacons' = activeBeacons]_vars


\* ------------------------------------------------------------------------
\* Specification of the smoother: packets of one beacon are offered, time
\* passes, the smoothed value is asked for
\* ------------------------------------------------------------------------
MaxPackets == 11

PacketRssi == {BLE_RSSI_QUALITY_THRESHOLD, BLE_RSSI_QUALITY_THRESHOLD - 1}

STick ==
    /\ \E t \in SmootherTimePoints : t > now /\ now' = t
    /\ lastOp' = "tick"
    /\ UNCHANGED <<xvars, zvars, tvars, bvars>>

SOffer ==
    /\ globalRSSISmoother.totalPacketsProcessed < MaxPackets
    /\ \E r \in PacketRssi : \E crcValid \in BOOLEAN :
          addRSSIPacket("aa:01", r, crcValid)

SQuery == getSmoothedRssi("aa:01")

NextSmooth == STick \/ SOffer \/ SQuery

SpecSmooth == Init /\ [][NextSmooth]_vars

OldestRetained ==
    acceptedTimes[Max2(1, Len(acceptedTimes) - BLE_RSSI_PACKET_COUNT + 1)]

MaxRecorded == 54

HLoad ==
    /\ activeZoneCount = 0
    /\ recentTransitions = <<>>
    /\ \E d \in {DocAB, DocB} : loadZonesFromJson(d)

HMove ==
    /\ Len(zoneAlerts) < MaxRecorded
    /\ \E p \in {<<1, 1>>, <<5, 1>>} : updatePosition(p[1], p[2], TRUE)

NextHist == Tick \/ HLoad \/ HMove

SpecHist == Init /\ [][NextHist]_vars

\* the configured zones whose occupancy the step has changed
ChangedZones ==
    {i \in ZoneIdx :
        /\ i < activeZoneCount
        /\ Bit(currentZoneStates, i) # Bit(currentZoneStates', i)}

\* C21: the history never holds more than its capacity and its records are
\* in the order of their timestamps; a call adds one record per configured zone
\* whose occupancy changed, at the end; the old records stay in place before
\* them, but the oldest ones, which go only as far as the capacity demands.
C21_HistoryBoundedOldestDiscarded ==
    [][/\ Len(recentTransitions') <= TRANSITION_HISTORY_LIMIT
       /\ \A i \in 1 .. Len(recentTransitions') - 1 :
             recentTransitions'[i].timestamp
                <= recentTransitions'[i + 1].timestamp
       /\ lastOp' = "updatePosition"
          => LET n == Cardinality(ChangedZones)
                 len == Len(recentTransitions')
                 d == Len(recentTransitions) + n - len
             IN /\ len = Min2(Len(recentTransitions) + n,
                              TRANSITION_HISTORY_LIMIT)
                /\ SubSeq(recentTransitions', 1, len - n)
                      = SubSeq(recentTransitions, d + 1,
                               Len(recentTransitions))
                /\ \A k \in (len - n + 1) .. len :
                      /\ recentTransitions'[k].timestamp = now
                      /\ \E z \in ChangedZones :
                            recentTransitions'[k].zoneId = zones[z].zoneId]_vars

\* the full history has just given up its oldest records for new ones, and
\* holds records of different times
C21_Witness ==
    /\ lastOp = "updatePosition"
    /\ Len(recentTransitions) = TRANSITION_HISTORY_LIMIT
    /\ Len(zoneAlerts) > TRANSITION_HISTORY_LIMIT
    /\ recentTransitions[1].timestamp
          < recentTransitions[TRANSITION_HISTORY_LIMIT].timestamp


\* ------------------------------------------------------------------------
\* Specification of the zone configuration: zones are added, the
\* configuration is saved and the saved document is loaded again
\* ------------------------------------------------------------------------
ZoneIds == {"yard", "pond"}
ZoneSizes == {2, 3}
Triangle == <<Point2D(0, 0), Point2D(6, 0), Point2D(0, 6)>>

CAddCircle ==
    \E id \in ZoneIds : \E r \in ZoneSizes :
        addCircularZone(id, id, ZONE_TYPE_SAFE, 1, 1, r)

CAddRectangle ==
    \E id \in ZoneIds : \E w \in ZoneSizes :
        addRectangularZone(id, id, ZONE_TYPE_DANGER, 4, 4, w, 2)

CAddPolygon ==
    \E id \in ZoneIds : addPolygonZone(id, id, ZONE_TYPE_SAFE, Triangle)

CLoadSaved ==
    /\ savedJson.root # "null"
    /\ loadConfiguration(savedJson)

NextConfig ==
    \/ Tick
    \/ CAddCircle
    \/ CAddRectangle
    \/ CAddPolygon
    \/ saveConfiguration
    \/ CLoadSaved

SpecConfig == Init /\ [][NextConfig]_vars

\* same id, same geometry, same configuration
EquivalentZones(a, b) ==
    /\ a.id = b.id
    /\ a.shape = b.shape
    /\ a.center = b.center
    /\ a.shape = ZONE_SHAPE_CIRCLE => a.radius = b.radius
    /\ a.shape = ZONE_SHAPE_RECTANGLE
       => a.width = b.width /\ a.height = b.height
    /\ a.shape = ZONE_SHAPE_POLYGON => a.vertices = b.vertices
    /\ a.name = b.name
    /\ a.type = b.type
    /\ a.active = b.active
    /\ a.alertEnabled = b.alertEnabled
    /\ a.priority = b.priority
    /\ a.alertCooldown = b.alertCooldown
    /\ a.schedule = b.schedule

\* C22: loading the document that saveConfiguration returned gives a zone
\* for every zone that was saved, with the same id, geometry and
\* configuration.
C22_SaveLoadRoundTrip ==
    [][lastOp' = "loadConfiguration"
       => /\ Len(zones_') = Len(savedFrom)
          /\ \A k \in 1 .. Len(savedFrom) :
                EquivalentZones(zones_'[k], savedFrom[k])]_vars


\* ------------------------------------------------------------------------
\* Specification of the containment test: a polygon and a point are chosen
\* and the test is applied
\* ------------------------------------------------------------------------
Square == << <<0, 0>>, <<4, 0>>, <<4, 4>>, <<0, 4>> >>
Diamond == << <<2, 0>>, <<4, 2>>, <<2, 4>>, <<0, 2>> >>
RightTriangle == << <<0, 0>>, <<6, 0>>, <<0, 6>> >>
Hexagon == << <<1, 0>>, <<3, 0>>, <<4, 2>>, <<3, 4>>, <<1, 4>>, <<0, 2>> >>
LShape == << <<0, 0>>, <<4, 0>>, <<4, 2>>, <<2, 2>>, <<2, 4>>, <<0, 4>> >>

ConvexPolygons == {Square, Diamond, RightTriangle, Hexagon}
Polygons == ConvexPolygons \cup {LShape}

FarAway == 100
Coordinates == {-FarAway, FarAway} \cup (-1 .. 5)

PolygonZone(pts) ==
    [Zone0 EXCEPT !.zoneId = "P", !.name = "polygon",
                  !.pointCount = Len(pts), !.points = pts,
                  !.isComplete = TRUE]

Vertices(pts) == [k \in 1 .. Len(pts) |-> Point2D(pts[k][1], pts[k][2])]

Applied(op, args, result) ==
    /\ lastOp' = op
    /\ probe' = [result |-> result, op |-> op, args |-> args]
    /\ UNCHANGED <<now, pvars, svars, rvars, smvars, cvars, ovars, zvars,
                   tvars, bvars>>

\* ZoneManager::isPointInPolygon applied to a point and a polygon
ApplyIsPointInPolygon ==
    \E pts \in Polygons : \E x \in Coordinates : \E y \in Coordinates :
        Applied("isPointInPolygon", <<x, y, pts>>,
                isPointInPolygon(x, y, PolygonZone(pts)))

\* Zone::pointInPolygon applied to a point and a polygon
ApplyPointInPolygon ==
    \E pts \in Polygons : \E x \in Coordinates : \E y \in Coordinates :
        Applied("pointInPolygon", <<x, y, pts>>,
                pointInPolygon(Point2D(x, y), Vertices(pts)))

NextPoly == ApplyIsPointInPolygon \/ ApplyPointInPolygon

SpecPoly == Init /\ [][NextPoly]_vars

ContainmentApplied == probe.op \in {"isPointInPolygon", "pointInPolygon"}

\* the edge from a to b is not horizontal and a ray to the right, from
\* (px, py), meets it at an x beyond px
MeetsToTheRight(px, py, a, b) ==
    /\ a[2] # b[2]
    /\ IF b[2] > a[2]
       THEN (a[1] - px) * (b[2] - a[2]) + (py - a[2]) * (b[1] - a[1]) > 0
       ELSE (a[1] - px) * (b[2] - a[2]) + (py - a[2]) * (b[1] - a[1]) < 0

NextVertex(pts, i) == pts[(i % Len(pts)) + 1]

\* the edges counted when the y of the point must lie strictly inside the
\* y-range of the edge
StrictCrossings(px, py, pts) ==
    {i \in 1 .. Len(pts) :
        /\ py > Min2(pts[i][2], NextVertex(pts, i)[2])
        /\ py < Max2(pts[i][2], NextVertex(pts, i)[2])
        /\ MeetsToTheRight(px, py, pts[i], NextVertex(pts, i))}

\* the edges counted when the y-range of an edge includes its lower end
HalfOpenCrossings(px, py, pts) ==
    {i \in 1 .. Len(pts) :
        /\ py >= Min2(pts[i][2], NextVertex(pts, i)[2])
        /\ py < Max2(pts[i][2], NextVertex(pts, i)[2])
        /\ MeetsToTheRight(px, py, pts[i], NextVertex(pts, i))}

\* C23 as stated: the point is inside exactly when an odd number of edges
\* is crossed, an edge being crossed when it is not horizontal, the y of
\* the point lies strictly within the y-range of the edge and the
\* intersection lies to the right of the point.
C23_RayCastingStrictRange ==
    ContainmentApplied
    => (probe.result
        <=> Cardinality(StrictCrossings(probe.args[1], probe.args[2],
                                        probe.args[3])) % 2 = 1)

\* C23 amended: the same with the y-range of an edge taken from its lower
\* end, included, to its upper end, excluded.
C23_RayCastingHalfOpenRange ==
    ContainmentApplied
    => (probe.result
        <=> Cardinality(HalfOpenCrossings(probe.args[1], probe.args[2],
                                          probe.args[3])) % 2 = 1)

\* a point level with the lower end of an edge to its right has been found
\* inside through that edge alone
C23_Witness ==
    /\ ContainmentApplied
    /\ probe.result
    /\ StrictCrossings(probe.args[1], probe.args[2], probe.args[3]) = {}
    /\ Cardinality(HalfOpenCrossings(probe.args[1], probe.args[2],
                                     probe.args[3])) = 1

Centre(pts) ==
    <<TruncDiv(SumSeq([k \in 1 .. Len(pts) |-> pts[k][1]]), Len(pts)),
      TruncDiv(SumSeq([k \in 1 .. Len(pts) |-> pts[k][2]]), Len(pts))>>

FarOutside(x, y) == Abs(x) = FarAway \/ Abs(y) = FarAway

Layout(p1, p2, p3) ==
    << BeaconPosition("b1", "b1", p1[1], p1[2]),
       BeaconPosition("b2", "b2", p2[1], p2[2]),
       BeaconPosition("b3", "b3", p3[1], p3[2]) >>

Layouts ==
    { Layout(<<0, 0>>, <<6, 0>>, <<0, 8>>),
      Layout(<<0, 0>>, <<8, 0>>, <<0, 6>>),
      Layout(<<0, 0>>, <<3, 4>>, <<6, 0>>),
      Layout(<<0, 0>>, <<5, 0>>, <<0, 4>>),
      Layout(<<0, 0>>, <<3, 0>>, <<6, 0>>) }

TrueXs == {-18, 0, 18, 30, 39, 60}

TrueYs == {-16, 0, 18, 39, 40, 80}

\* squared distance, in square decimetres, from the true position to a beacon
SquaredDistance(px, py, bp) ==
    (px - 10 * bp.x) * (px - 10 * bp.x) + (py - 10 * bp.y) * (py - 10 * bp.y)

MeasuredDistance(px, py, bp) == Sqrt(SquaredDistance(px, py, bp))

MeasuredFrame(px, py, kb) ==
    [i \in 1 .. Len(kb) |->
        [name |-> kb[i].name, rssi |-> 0,
         distance |-> MeasuredDistance(px, py, kb[i])]]

ApplyLeastSquares ==
    \E kb \in Layouts : \E px \in TrueXs : \E py \in TrueYs :
        Applied("calculateLeastSquaresPosition", <<px, py, kb>>,
                calculateLeastSquaresPosition(MeasuredFrame(px, py, kb),
                                              kb, now))

NextLS == Tick \/ ApplyLeastSquares

SpecLS == Init /\ [][NextLS]_vars

LeastSquaresApplied == probe.op = "calculateLeastSquaresPosition"

\* every measured distance of the applied frame is the geometric distance
ExactDistances ==
    \A i \in 1 .. Len(probe.args[3]) :
        LET d == MeasuredDistance(probe.args[1], probe.args[2],
                                  probe.args[3][i])
        IN d * d = SquaredDistance(probe.args[1], probe.args[2],
                                   probe.args[3][i])

\* the three beacons of the applied frame lie on one line
Collinear ==
    LET kb == probe.args[3]
    IN (kb[2].x - kb[1].x) * (kb[3].y - kb[1].y)
         = (kb[3].x - kb[1].x) * (kb[2].y - kb[1].y)

\* the estimate is within 0.01 m of the true position, confidence >= 0.99
RecoversTruePosition ==
    /\ Abs(probe.result.x - 10 * probe.args[1]) <= 1
    /\ Abs(probe.result.y - 10 * probe.args[2]) <= 1
    /\ probe.result.confidence >= 990

\* C25, as stated: for any three beacons at known coordinates whose distances
\* are exactly those of a true position, the least-squares estimate is that
\* position within 0.01 units with a confidence of about 1.0.
C25_ExactDistancesRecoverPosition ==
    (LeastSquaresApplied /\ ExactDistances) => RecoversTruePosition

\* C25, amended: the same, for three beacons that do not lie on one line.
C25_NonCollinearExactDistancesRecoverPosition ==
    (LeastSquaresApplied /\ ExactDistances /\ ~Collinear)
        => RecoversTruePosition

C25_Witness ==
    /\ LeastSquaresApplied /\ ExactDistances /\ ~Collinear
    /\ probe.args[1] = 30 /\ probe.args[2] = 40
    /\ probe.args[3] = Layout(<<0, 0>>, <<3, 4>>, <<6, 0>>)
    /\ probe.result.x = 300 /\ probe.result.y = 400
    /\ probe.result.confidence = 1000

\* ------------------------------------------------------------------------
\* Specification of the window of one beacon: accepted samples of two
\* strengths are offered until the window has evicted its oldest ones, and
\* the smoothed value is asked for; no time passes
\* ------------------------------------------------------------------------
MaxOffered == 12

SampleRssi == {-50, -61}

WOffer ==
    /\ globalRSSISmoother.totalPacketsProcessed < MaxOffered
    /\ \E r \in SampleRssi : addRSSIPacket("aa:01", r, TRUE)

NextWindow == WOffer \/ SQuery

SpecWindow == Init /\ [][NextWindow]_vars

\* the strengths retained in the window of the beacon
Retained ==
    {globalRSSISmoother.beacons["aa:01"].packets[k].rssi :
        k \in 1 .. Len(globalRSSISmoother.beacons["aa:01"].packets)}

\* C26: whatever accepted samples one beacon has been given, the median
\* reported for it lies between the smallest and the largest strength that
\* its window retains at that moment.
C26_MedianWithinRetainedRange ==
    (lastOp = "getSmoothedRssi" /\ smoothedOut.ready)
    => /\ \E lo \in Retained : lo <= smoothedOut.value
       /\ \E hi \in Retained : smoothedOut.value <= hi

\* a value strictly between the two strengths has been reported from a
\* window that has evicted its oldest samples
C26_Witness ==
    /\ lastOp = "getSmoothedRssi" /\ smoothedOut.ready
    /\ globalRSSISmoother.totalPacketsProcessed > BLE_RSSI_PACKET_COUNT
    /\ Retained = SampleRssi
    /\ smoothedOut.value \notin SampleRssi

\* ------------------------------------------------------------------------
\* Specification of repeated queries: packets are offered, the smoothed
\* value is asked for, and time passes between any two operations without
\* being an operation itself
\* ------------------------------------------------------------------------
SElapse ==
    /\ \E t \in SmootherTimePoints : t > now /\ now' = t
    /\ UNCHANGED <<lastOp, xvars, zvars, tvars, bvars>>

NextRepeat == SElapse \/ SOffer \/ SQuery

SpecRepeat == Init /\ [][NextRepeat]_vars

\* the value is asked for again, no packet having been offered since it
\* was last asked for
RepeatedQuery == lastOp = "getSmoothedRssi" /\ lastOp' = "getSmoothedRssi"

ObservedNames3 ==
    {<<p, l, i>> : p \in {"PetZone", "Zone"}, l \in {"Home", "Garden"},
                   i \in {"01", "02"}}

ObservedNames4 ==
    {<<n[1], n[2], z, n[3]>> : n \in ObservedNames3, z \in {"Living", "Yard"}}

ObservedNames5 ==
    {<<n[1], n[2], n[3], r, n[4]>> : n \in ObservedNames4, r \in {"Sofa", "Door"}}

ObservedNames == ObservedNames3 \cup ObservedNames4 \cup ObservedNames5

ObservedRssi == {-61, -40, -30}

DistanceRssi == (-100) .. 5

\* the three extractions made from the name of a beacon
ApplyParseName ==
    \E n \in ObservedNames :
        Applied("parseBeaconName", <<n>>,
                [zone |-> extractZone(n),
                 location |-> extractLocation(n),
                 beaconId |-> extractBeaconId(n)])

\* one observation: the name is parsed, the strength is converted to a
\* distance and to a confidence
ApplyObserve ==
    \E n \in ObservedNames3 : \E rssi \in ObservedRssi :
        Applied("observe", <<n, rssi>>,
                [confidence |-> calculateConfidence(rssi),
                 location |-> extractLocation(n),
                 distance |-> calculateDistance(rssi),
                 beaconId |-> extractBeaconId(n)])

\* a conversion applied to a strength and to the next stronger one
ApplyCalculateDistance ==
    \E rssi \in DistanceRssi :
        Applied("calculateDistance", <<rssi>>,
                [at |-> calculateDistance(rssi),
                 next |-> calculateDistance(rssi + 1),
                 max |-> BLE_MAX_DISTANCE_CM])

ApplyRefactoredCalculateDistance ==
    \E rssi \in DistanceRssi :
        Applied("Refactored_calculateDistance", <<rssi>>,
                [at |-> Refactored_calculateDistance(rssi),
                 next |-> Refactored_calculateDistance(rssi + 1),
                 max |-> BLE_MAX_DISTANCE_CM])

ApplyRssiToDistance ==
    \E rssi \in DistanceRssi :
        Applied("rssiToDistance", <<rssi>>,
                [at |-> rssiToDistance(rssi),
                 next |-> rssiToDistance(rssi + 1),
                 max |-> MAX_BEACON_DISTANCE])

NextObserve ==
    \/ ApplyParseName
    \/ ApplyObserve
    \/ ApplyCalculateDistance
    \/ ApplyRefactoredCalculateDistance
    \/ ApplyRssiToDistance

SpecObserve == Init /\ [][NextObserve]_vars

\* C28: a name <Prefix>-<Location>-<Id> or <Prefix>-<Location>-<Zone>-<Id>
\* is parsed into the location, which is what stands between the prefix and
\* the dash before the id, the id, which is the last segment, and the
\* sub-zone, which is the segment before the id of a four-segment name and
\* is empty for a three-segment name.
C28_NameParsedIntoLocationZoneId ==
    (/\ probe.op = "parseBeaconName"
     /\ Len(probe.args[1]) \in {3, 4}
     /\ probe.args[1][1] = "PetZone")
    => LET name == probe.args[1]
           n == Len(name)
       IN /\ probe.result.location = SubSeq(name, 2, n - 1)
          /\ probe.result.beaconId = name[n]
          /\ probe.result.zone = IF n = 4 THEN name[3] ELSE ""

\* the part of C28 that the code keeps: location and id
C28_LocationAndId ==
    (/\ probe.op = "parseBeaconName"
     /\ Len(probe.args[1]) \in {3, 4}
     /\ probe.args[1][1] = "PetZone")
    => LET name == probe.args[1]
           n == Len(name)
       IN /\ probe.result.location = SubSeq(name, 2, n - 1)
          /\ probe.result.beaconId = name[n]

HomeObservedAtMinusForty ==
    /\ probe.op = "observe"
    /\ probe.args[2] = -40
    /\ SubSeq(probe.args[1], 2, 3) = <<"Home", "01">>

ClampedLogDistance(rssi) ==
    LET mm == PathLossMm(TX_POWER_DBM - rssi) - CONTACT_OFFSET_MM
    IN Max2(0, Min2(BLE_MAX_DISTANCE_CM, Max2(0, mm) \div 10))

DistanceApplied ==
    probe.op \in {"calculateDistance", "Refactored_calculateDistance",
                  "rssiToDistance"}

\* never negative, never above the maximum range, never larger for the
\* next stronger signal
DistanceWithinRangeAndMonotone ==
    /\ 0 <= probe.result.at
    /\ probe.result.at <= probe.result.max
    /\ probe.result.next <= probe.result.at

\* C30: the distance of a beacon is the clamped log-distance value less the
\* offset, for both copies of calculateDistance; and for every conversion it
\* is never negative, never above the maximum range and never increases
\* with the signal strength.
C30_DistanceFollowsClampedLogModel ==
    DistanceApplied
    => /\ probe.op # "rssiToDistance"
          => probe.result.at = ClampedLogDistance(probe.args[1])
       /\ DistanceWithinRangeAndMonotone

\* the part of C30 that holds: calculateDistance of the firmware tree
C30_FirmwareCopyFollowsModel ==
    probe.op = "calculateDistance"
    => /\ probe.result.at = ClampedLogDistance(probe.args[1])
       /\ DistanceWithinRangeAndMonotone

\* the part of C30 that holds for the refactored copy
C30_RefactoredCopyWithinRange ==
    probe.op = "Refactored_calculateDistance"
    => DistanceWithinRangeAndMonotone

\* the part of C30 that holds for the estimator: signals other than 0 dBm
C30_EstimatorWithinRange ==
    (probe.op = "rssiToDistance" /\ probe.args[1] \notin {-1, 0})
    => DistanceWithinRangeAndMonotone

\* ------------------------------------------------------------------------
\* Specification of the zone monitor: the manager is begun and a pond is
\* added at the start, positions arrive as time passes, the zones are
\* cleared and the manager is reset at any moment
\* ------------------------------------------------------------------------
MaxCallbacks == 3

MonitorTimePoints == {0, 1000, 5000, 6000, 10000, 11000}

AtHome == Position2D(0, 0, 1000, 0)

AtPond == Position2D(2000, 0, 1000, 0)

Nowhere == Position2D(5000, 5000, 1000, 0)

Unreliable == Position2D(2000, 0, 0, 0)

MTick ==
    /\ \E t \in MonitorTimePoints : t > now /\ now' = t
    /\ lastOp' = "tick"
    /\ UNCHANGED <<xvars, zvars, tvars, bvars>>

MBegin == now = 0 /\ ZoneManager_begin

MAddPond ==
    /\ now = 0
    /\ addCircularZone("pond", "pond", ZONE_TYPE_DANGER, 20, 0, 2)

MUpdate ==
    /\ zoneEvents.count < MaxCallbacks
    /\ \E p \in {AtHome, AtPond, Nowhere, Unreliable} :
          ZoneManager_updatePosition(p)

NextMonitor ==
    \/ MTick
    \/ MBegin
    \/ MAddPond
    \/ MUpdate
    \/ ZoneManager_clearAllZones
    \/ ZoneManager_reset

SpecMonitor == Init /\ [][NextMonitor]_vars

\* the records of the history are at least the cooldown apart
HistorySpaced(h) ==
    \A i \in 1 .. Len(h) : \A j \in 1 .. Len(h) :
        i < j => h[j].timestamp - h[i].timestamp >= ZONE_TRANSITION_COOLDOWN

\* an update that passes the rate limit during the cooldown leaves the
\* current zone, the history and the callbacks as they were
SuppressedKeepsZone ==
    (/\ lastOp' = "ZoneManager::updatePosition"
     /\ lastZoneCheck_' # lastZoneCheck_
     /\ now - lastTransition_ < ZONE_TRANSITION_COOLDOWN)
    => UNCHANGED <<currentZoneId_, transitionHistory_, zoneEvents>>

\* C31, as stated: the recorded transitions are at least 5000 ms apart, so
\* are the callbacks of any two transitions, and an update suppressed by
\* the cooldown leaves the current zone id unchanged.
C31_TransitionsSpacedByCooldown ==
    [][/\ HistorySpaced(transitionHistory_')
       /\ zoneEvents' # zoneEvents
          => \/ zoneEvents.count = 0
             \/ now - zoneEvents.at >= ZONE_TRANSITION_COOLDOWN
       /\ SuppressedKeepsZone]_vars

\* C31, amended: the same, the callbacks of two transitions being at least
\* 5000 ms apart unless reset() was called between them.
C31_TransitionsSpacedSinceReset ==
    [][/\ HistorySpaced(transitionHistory_')
       /\ zoneEvents' # zoneEvents
          => \/ zoneEvents.count = 0
             \/ now - zoneEvents.at >= ZONE_TRANSITION_COOLDOWN
             \/ lastTransition_ # zoneEvents.at
       /\ SuppressedKeepsZone]_vars

\* two transitions are on record, and the wearer has since been seen in
\* another zone during the cooldown
C31_Witness ==
    /\ Len(transitionHistory_) >= 2
    /\ lastOp = "ZoneManager::updatePosition"
    /\ lastZoneCheck_ = now
    /\ now - lastTransition_ \in 1 .. (ZONE_TRANSITION_COOLDOWN - 1)
    /\ currentZoneId_ \notin findZoneContaining(zones_, AtPond, now)
    /\ findZone(zones_, "pond")

\* ------------------------------------------------------------------------
\* Specification of a wearer that stays at the pond: up to StayFrom the
\* positions are any, from then on they are valid and at the pond; they
\* keep arriving and time keeps passing
\* ------------------------------------------------------------------------
StayFrom == 6000

StayUpdate == now >= StayFrom /\ ZoneManager_updatePosition(AtPond)

EarlyUpdate ==
    /\ now < StayFrom
    /\ \E p \in {AtHome, AtPond, Nowhere, Unreliable} :
          ZoneManager_updatePosition(p)

NextStay == MTick \/ MBegin \/ MAddPond \/ EarlyUpdate \/ StayUpdate

SpecStay ==
    Init /\ [][NextStay]_vars /\ WF_vars(MTick) /\ WF_vars(StayUpdate)

\* the current zone is the zone of the pond position and, where that is a
\* zone, the newest record of the history is the transition into it
SettledAtPond ==
    /\ currentZoneId_ \in findZoneContaining(zones_, AtPond, now)
    /\ currentZoneId_ # ""
       => /\ transitionHistory_ # <<>>
          /\ transitionHistory_[Len(transitionHistory_)].toZoneId
                = currentZoneId_

\* C32: whatever was suppressed by the cooldown or by the rate limit, once
\* the wearer stays in a zone and valid positions keep arriving the
\* transition is eventually recorded and the current zone id eventually is,
\* and stays, the zone that contains the position.
C32_SuppressedChangeEventuallyRecorded ==
    <>[](ZoneManager_initialized_ => SettledAtPond)

\* the entry into the pond, seen and suppressed at 6000 ms, 1000 ms after
\* an earlier transition, is on record
C32_Witness ==
    /\ ZoneManager_initialized_
    /\ currentZoneId_ = "pond"
    /\ Len(transitionHistory_) = 2
    /\ transitionHistory_[1].timestamp = ZONE_TRANSITION_COOLDOWN
    /\ transitionHistory_[1].toZoneId = "default_safe"
    /\ transitionHistory_[2].toZoneId = "pond"
    /\ lastZoneCheck_ > StayFrom

\* ------------------------------------------------------------------------
\* Specification of the alert manager: it is begun, alerts of three
\* priorities are requested, stopped and updated as time passes. An alert
\* is requested only while its end time is a time the model reaches.
\* ------------------------------------------------------------------------
MaxRequests == 4

AlertTimePoints == {0, 1000, 2000, 3000, 4000, 5000, 6000, 8000}

AlertHorizon == 8000

RequestedConfigs ==
    {AlertConfig(pr, DEFAULT_DURATION_MS, DEFAULT_COOLDOWN_MS, "zone") :
        pr \in {PRIORITY_LOW, PRIORITY_NORMAL, PRIORITY_HIGH}}

ATick ==
    /\ \E t \in AlertTimePoints : t > now /\ now' = t
    /\ lastOp' = "tick"
    /\ UNCHANGED <<xvars, zvars, tvars, bvars>>

AStart ==
    /\ alertRequest.calls < MaxRequests
    /\ \E c \in RequestedConfigs :
          /\ now + c.durationMs <= AlertHorizon
          /\ startAlert(c)

NextAlert ==
    \/ ATick
    \/ AlertManager_begin
    \/ AStart
    \/ stopAlert
    \/ AlertManager_update

SpecAlert == Init /\ [][NextAlert]_vars

SpecAlertLive ==
    Init /\ [][NextAlert]_vars /\ WF_vars(ATick)
         /\ WF_vars(AlertManager_update)

\* a request made of a manager that was begun
RequestMade ==
    /\ lastOp' = "startAlert"
    /\ alertRequest'.calls # alertRequest.calls
    /\ AlertManager_initialized_

\* C33: a request is refused on cooldown grounds exactly when
\* isInCooldown() is true at the moment of the request, that is during the
\* cooldown that follows the stop of an alert and at no other time.
C33_RefusedExactlyInCooldown ==
    [][RequestMade
       => (alertRequest'.refusedBy = "cooldown" <=> isInCooldown(now))]_vars

\* C34: one alert at most is active; an active alert is replaced only by a
\* request of strictly higher priority; a request of equal or lower
\* priority returns false and leaves the configuration, the start time and
\* the end time of the active alert as they were.
C34_ReplacedOnlyByHigherPriority ==
    [][/\ (/\ RequestMade
           /\ currentAlert_.isActive
           /\ alertRequest'.config.priority <= currentAlert_.config.priority)
          => (~alertRequest'.result /\ currentAlert_' = currentAlert_)
       /\ (/\ currentAlert_.isActive
           /\ currentAlert_'.isActive
           /\ currentAlert_' # currentAlert_)
          => /\ RequestMade
             /\ alertRequest'.result
             /\ alertRequest'.config.priority > currentAlert_.config.priority
             /\ currentAlert_'.config = alertRequest'.config]_vars

\* a request of equal priority has just been refused on priority grounds
\* while an alert is active
C34_Witness ==
    /\ lastOp = "startAlert"
    /\ alertRequest.refusedBy = "priority"
    /\ currentAlert_.isActive
    /\ alertRequest.config.priority = currentAlert_.config.priority
    /\ currentAlert_.startTime < now

\* C35: an update at or after the end time of the active alert ends it, and
\* with update() called again and again every active alert eventually is
\* no longer active.
C35_StartedAlertEventuallyEnds ==
    /\ [][(/\ lastOp' = "AlertManager::update"
            /\ currentAlert_.isActive
            /\ now >= currentAlert_.endTime)
           => ~currentAlert_'.isActive]_vars
    /\ (currentAlert_.isActive ~> ~currentAlert_.isActive)

\* an alert has been ended by an update at its very end time
C35_Witness ==
    /\ lastOp = "AlertManager::update"
    /\ ~currentAlert_.isActive
    /\ totalAlerts_ > 0
    /\ now = currentAlert_.endTime
    /\ lastCooldownEnd_ = now + currentAlert_.config.cooldownMs


\* ------------------------------------------------------------------
\* Singular systems and rejected estimates (SpecTri)
\* ------------------------------------------------------------------

\* scan frames of three beacons on the line y = 0 (Living Room at 0 m, Hall
\* at 3 m, Kitchen at 5 m), seen from on or near that line
LineRssiLivingRoom == {-45, -52, -71}
LineRssiHall == {-67, -63}
LineRssiKitchen == {-71, -40}
LineFrames ==
    { << Beacon("Living Room", a), Beacon("Kitchen", b), Beacon("Hall", c) >> :
        a \in LineRssiLivingRoom, b \in LineRssiKitchen, c \in LineRssiHall }

LineUpdate == \E f \in LineFrames : TriangulationManager_updatePosition(f)

NextLine ==
    \/ Tick
    \/ TriangulationManager_begin
    \/ TAddBeacon
    \/ LineUpdate

SpecLine == Init /\ [][NextLine]_vars

\* C36: when the normal-equation determinant is below the singularity
\* threshold, the update does not report success and the current position is
\* not set to the solver's default position.
C36_SingularDefaultNeverAccepted ==
    SingularCycle =>
        /\ ~updateResult
        /\ ~(positionValid_ /\ lastTriangulation_ = now
               /\ currentPosition_.x = Position2D_Default.x
               /\ currentPosition_.y = Position2D_Default.y)

\* C37: after an update that returned false the position is not reported
\* valid; a rejected estimate does not leave an older position valid.
C37_FailedUpdateInvalidates ==
    (AfterEstimatorCycle /\ ~updateResult) => ~isPositionValid


\* ------------------------------------------------------------------
\* Specification of repeated proximity triggers
\* ------------------------------------------------------------------
CoolTimePoints == {0, 1000, 2000, 3000, 4000, 5000, 6000}

\* the alertDuration and cooldownPeriod handed to configure, milliseconds
DurationAndCooldown == {<<1000, 3000>>, <<3000, 1000>>}

CTick ==
    /\ \E t \in CoolTimePoints : t > now /\ now' = t
    /\ lastOp' = "tick"
    /\ UNCHANGED <<xvars, zvars, tvars, bvars>>

\* the installer configures the beacon and may later change its alert mode
CConfigure ==
    \E mode \in {"both", "none"}, dc \in DurationAndCooldown :
        /\ \A i \in 1 .. Len(proximityConfigs) :
              /\ proximityConfigs[i].alertDuration = dc[1]
              /\ proximityConfigs[i].cooldownPeriod = dc[2]
              /\ proximityConfigs[i].alertMode # mode
        /\ configureProximityBeacon("PetZone-Home-01", "Home", "aa:01", mode,
               TRIGGER_DISTANCE_CM, dc[1], FALSE, PROXIMITY_DELAY_MS, dc[2])

\* the one advertisement that puts the beacon into the store
CObserve ==
    /\ scanResults = 0
    /\ \E r \in RssiValues : processAdvertisedDevice("aa:01", r)

NextCool ==
    \/ CTick
    \/ CObserve
    \/ CConfigure
    \/ processProximityTriggers

SpecCool == Init /\ [][NextCool]_vars

\* this call of processProximityTriggers triggers configuration i
Triggers(i) ==
    /\ lastOp' = "processProximityTriggers"
    /\ proximityConfigs'[i].lastTriggered # proximityConfigs[i].lastTriggered

\* configuration i has triggered before
TriggeredBefore(i) == proximityConfigs[i].lastTriggered > 0

\* a trigger comes no sooner than the cooldown after the previous one, and
\* not while the previous alert window is open
TriggerSpaced(i) ==
    LET c == proximityConfigs[i]
    IN Triggers(i) =>
          /\ ~c.alertActive
          /\ TriggeredBefore(i) =>
                /\ now - c.lastTriggered >= c.cooldownPeriod
                /\ now - c.lastTriggered >= c.alertDuration

\* a call with the mode "none" logs no alert for configuration i
NoneStartsNoAlert(i) ==
    (/\ lastOp' = "processProximityTriggers"
     /\ proximityConfigs[i].alertMode = "none") =>
        ~proximityLog'[Len(proximityLog) + i].alert

\* after a call no alert window is open beyond its duration
WindowClosedInTime ==
    lastOp = "processProximityTriggers" =>
        \A i \in 1 .. Len(proximityConfigs) :
            proximityConfigs[i].alertActive =>
                now - proximityConfigs[i].lastTriggered
                    < proximityConfigs[i].alertDuration

\* C38: successive triggers of a proximity configuration are at least
\* cooldownPeriod apart and never fall into the previous alert window; in
\* the mode "none" no alert is started, and alertActive is cleared once
\* alertDuration has elapsed.
C38_TriggersSpacedAndWindowsClose ==
    /\ [][\A i \in 1 .. Len(proximityConfigs) :
             TriggerSpaced(i) /\ NoneStartsNoAlert(i)]_vars
    /\ []WindowClosedInTime

\* C38 witness: a configuration that had started an alert earlier has just
\* triggered again, this time in the mode "none".
C38_Witness ==
    /\ lastOp = "processProximityTriggers"
    /\ \E i \in 1 .. Len(proximityConfigs) :
          /\ proximityConfigs[i].alertMode = "none"
          /\ proximityConfigs[i].alertActive
          /\ proximityConfigs[i].lastTriggered = now
          /\ \E k \in 1 .. Len(proximityLog) :
                proximityLog[k].alert /\ proximityLog[k].at < now


\* ------------------------------------------------------------------
\* Specification of the zone list: zones are added one at a time, the
\* manager is started, and configurations written by hand are loaded
\* ------------------------------------------------------------------
ListedIds == {"yard", "pond", "default_safe"}

\* a configuration document with one default circular zone per id
WrittenDocument(ids) ==
    [root |-> "object",
     zones |-> [k \in 1 .. Len(ids) |->
                   Zone_members([Zone_New(0) EXCEPT !.id = ids[k],
                                                    !.name = ids[k]])],
     elements |-> <<>>]

ElevenIds ==
    <<"z1", "z2", "z3", "z4", "z5", "z6", "z7", "z8", "z9", "z10", "z11">>

WrittenDocuments ==
    {WrittenDocument(<<"yard", "pond">>), WrittenDocument(<<"yard", "yard">>),
     WrittenDocument(ElevenIds)}

LAdd == \E id \in ListedIds : addCircularZone(id, id, ZONE_TYPE_SAFE, 1, 1, 2)

LLoad == \E doc \in WrittenDocuments : loadConfiguration(doc)

NextList ==
    \/ Tick
    \/ LAdd
    \/ LLoad
    \/ ZoneManager_begin

SpecList == Init /\ [][NextList]_vars

\* C39: the zone list never holds more than MAX_ZONES zones and no two of
\* its zones share an id, whether they were added or loaded.
C39_ListBoundedAndIdsUnique ==
    /\ Len(zones_) <= ZONE_LIST_LIMIT
    /\ \A i, j \in 1 .. Len(zones_) : zones_[i].id = zones_[j].id => i = j

\* the capacity alone
C39_ListBounded == Len(zones_) <= ZONE_LIST_LIMIT

\* what the add operations alone keep: while nothing was loaded and the
\* manager is not started, the list is bounded and its ids are unique
C39_AddedZonesBoundedAndUnique ==
    [][lastOp' = "addZone" =>
          /\ Len(zones_') <= Max2(Len(zones_), ZONE_LIST_LIMIT)
          /\ \A k \in 1 .. Len(zones_) :
                Len(zones_') > Len(zones_)
                    => zones_[k].id # zones_'[Len(zones_')].id]_vars


\* ------------------------------------------------------------------
\* The occupancy bitmask and the occupied flags of the zone engine
\* ------------------------------------------------------------------
\* C40: bit i of currentZoneStates is set exactly when i is below the active
\* zone count and zone i is marked currently occupied, also right after the
\* zones were reloaded or cleared.
C40_MaskMatchesFlags ==
    BitsOf(currentZoneStates) =
        {i \in ZoneIdx : i < activeZoneCount /\ zones[i].currentlyOccupied}

\* the agreement right after a valid position was processed for at least
\* one zone; a flag left set in a slot that a reload dropped and a later
\* reload filled again breaks it
C40_MaskMatchesFlagsAfterUpdate ==
    (lastOp = "updatePosition" /\ positionValid /\ activeZoneCount > 0)
        => C40_MaskMatchesFlags

====
